---- MODULE Spec2Model ----
(***************************************************************************)
(* Encounter simulation core of ff-3d-sim: the Timeline scheduler          *)
(* (src/src/Timeline.ts), the AoE lifecycle manager                        *)
(* (src/src/AoEManager.ts) and the chakram projectile manager              *)
(* (src/unnamed/part_013), as driven by Game (src/unnamed/part_007), and   *)
(* the status effect tracker BuffManager (src/unnamed/part_009).           *)
(*                                                                         *)
(* Times are whole ticks: the code adds and compares JavaScript numbers,   *)
(* and on whole numbers of this size that arithmetic is exact.  The        *)
(* collision tests of the AoE manager are modelled a second time on        *)
(* binary64 numbers, with the rounding of every operation.                 *)
(***************************************************************************)
EXTENDS Integers, Sequences, FiniteSets, TLC

VARIABLES
    events,          \* Timeline.events: the array of registered events
    currentTime,     \* Timeline.currentTime
    isRunning,       \* Timeline.isRunning
    executedEvents,  \* Timeline.executedEvents: Set of event ids
    lastOp,          \* observer: the most recent call made on the timeline
    lastFired,       \* observer: handler invocations of the most recent update call
    cycle,           \* observer: start() calls so far, counted up to 2
    activeAoEs,      \* AoEManager.activeAoEs: the Map, as its entries in insertion order
    timers,          \* the pending setTimeout(() => remove(id), 200) callbacks, oldest first
    allHits,         \* observer: the Map returned, when the most recent call was update
    entities,        \* observer: the entities passed, when the most recent call was update
    aoeOp,           \* observer: the most recent call made on the AoE manager
    aoeArg,          \* observer: the arguments of that call, but for entities
    aoeRet,          \* observer: how that call ended: "void", "throw", "true" or "false"
    activeChakrams,  \* ChakramManager.activeChakrams: the Map, as its entries in insertion order
    chHits,          \* observer: the Map returned, when the most recent call was update
    chEntities,      \* observer: the entities passed, when the most recent call was update
    chResolved,      \* observer: the ids that resolved in that update call, in order
    chOp,            \* observer: the most recent call made on the chakram manager
    chArg,           \* observer: the id passed to that call
    chDelta,         \* observer: the deltaTime passed, when that call was update
    chIdled,         \* observer: the live ids that sat stationary through an update with dt > 0
    activeEffects,   \* BuffManager.activeEffects: the Map, as its entries in insertion order
    buffOp,          \* observer: the most recent call made on the buff manager
    buffArg,         \* observer: the arguments of that call
    buffExpired,     \* observer: the array returned, when that call was update
    geoConfig,       \* the AoEConfig of a checkCollision query
    geoPoint,        \* the playerPosition of that query, as (x, z)
    geoSlack,        \* the units in the last place by which Math.atan2 is off in this build
    geoInside,       \* observer: what checkCollision returned for that query, once made
    geoBefore,       \* observer: what it returned before the query was turned
    abilities,       \* AbilitySystem.abilities: the Map, as its entries in insertion order
    abOp,            \* observer: the most recent call made on the ability system
    abArg,           \* observer: the ability id or the deltaTime passed to that call
    abRet,           \* observer: what that call returned: "void", "true" or "false"
    gameState,       \* Game.gameState
    successCheckTime,\* Game.successCheckTime: null, or <<t>> for the time t waited with no AoE live
    staleTimers,     \* removal callbacks of AoE managers that restart() has replaced
    gameOp,          \* observer: the handler of Game that ran most recently
    gameLog,         \* observer: the calls of that handler that may assign gameState
    zeroRun,         \* observer: dt summed over the latest updates that ended with no AoE live
    playerNumber,    \* Game.playerNumber
    forcedPlayerNumber, \* Game.forcedPlayerNumber: null, or <<n>> for the party number n
    script,          \* the events that setupTestTimeline registers
    lapsed           \* observer: the entities whose physical-vuln ran out in this attempt

tlVars == <<events, currentTime, isRunning, executedEvents, lastOp, lastFired, cycle>>

aoeVars == <<activeAoEs, timers, allHits, entities, aoeOp, aoeArg, aoeRet>>

chVars == <<activeChakrams, chHits, chEntities, chResolved, chOp, chArg, chDelta, chIdled>>

buffVars == <<activeEffects, buffOp, buffArg, buffExpired>>

geoVars == <<geoConfig, geoPoint, geoSlack, geoInside, geoBefore>>

abVars == <<abilities, abOp, abArg, abRet>>

gameVars ==
    <<gameState, successCheckTime, staleTimers, gameOp, gameLog, zeroRun,
      playerNumber, forcedPlayerNumber, script, lapsed>>

vars == <<tlVars, aoeVars, chVars, buffVars, geoVars, abVars, gameVars>>

(***************************************************************************)
(* Bounds of the model.                                                    *)
(***************************************************************************)
MaxTime == 1      \* event times are 0..MaxTime
MaxEvents == 2    \* at most this many events are registered at once
MaxTele == 1      \* telegraph durations are 1..MaxTele

EventIds == {"a", "b"}
Times == 0 .. MaxTime
\* a dt of MaxTime + 1 crosses every event time in one call
Deltas == 0 .. (MaxTime + 1)
MaxClock == MaxTime + 1

(***************************************************************************)
(* Event handlers.  The handlers Game registers either leave the timeline  *)
(* alone or reach Game.triggerFailure, which calls timeline.stop().        *)
(***************************************************************************)
Handlers == {"noop", "stop"}

\* TimelineEvent {time, id, handler}, with two observer fields: fired counts the
\* invocations of this event's handler in the current start()/reset() cycle; reg
\* is "pre" for an event that the last start() sorted, "late" for one registered
\* since then on a running timeline with time <= clock, "post" for any other.
TimelineEvent(time, id, handler) ==
    [time |-> time, id |-> id, handler |-> handler, fired |-> 0, reg |-> "post"]

EventInputs == {TimelineEvent(t, i, h) : t \in Times, i \in EventIds, h \in Handlers}

\* The Timeline object as one record.
TL == [events |-> events, currentTime |-> currentTime, isRunning |-> isRunning,
       executedEvents |-> executedEvents]

(***************************************************************************)
(* events.sort((a, b) => a.time - b.time): a stable sort by time.          *)
(***************************************************************************)
RECURSIVE InsertByTime(_, _)
InsertByTime(e, s) ==
    IF s = <<>> THEN <<e>>
    ELSE IF s[Len(s)].time <= e.time THEN Append(s, e)
    ELSE Append(InsertByTime(e, SubSeq(s, 1, Len(s) - 1)), s[Len(s)])

RECURSIVE SortByTime(_)
SortByTime(s) ==
    IF s = <<>> THEN <<>>
    ELSE InsertByTime(s[Len(s)], SortByTime(SubSeq(s, 1, Len(s) - 1)))

\* Observer fields at the start of a cycle: start() has sorted the events,
\* reset() has not.
MarkSorted(s) == [i \in DOMAIN s |-> [s[i] EXCEPT !.fired = 0, !.reg = "pre"]]

MarkReset(s) ==
    [i \in DOMAIN s |->
        [s[i] EXCEPT !.fired = 0, !.reg = IF s[i].reg = "pre" THEN "pre" ELSE "post"]]

(***************************************************************************)
(* Timeline methods, each as the Timeline record after the call.           *)
(***************************************************************************)
\* Mutant of addEvent: an event replaces a registered event of the same id.
addEvent_Dedup(t, e) ==
    IF \E i \in DOMAIN t.events : t.events[i].id = e.id
    THEN [t EXCEPT !.events =
            [i \in DOMAIN t.events |->
                IF t.events[i].id = e.id THEN e ELSE t.events[i]]]
    ELSE [t EXCEPT !.events = Append(t.events, e)]

addEvent(t, e) ==
    [t EXCEPT !.events =
        Append(t.events,
            [e EXCEPT !.reg = IF t.isRunning /\ e.time <= t.currentTime
                              THEN "late" ELSE "post"])]

RECURSIVE addEvents(_, _)
addEvents(t, es) ==
    IF es = <<>> THEN t ELSE addEvents(addEvent(t, Head(es)), Tail(es))

\* Mutant of start: the events are left in registration order.
start_NoSort(t) ==
    [t EXCEPT !.currentTime = 0,
              !.isRunning = TRUE,
              !.executedEvents = {},
              !.events = MarkSorted(t.events)]

start(t) ==
    [t EXCEPT !.currentTime = 0,
              !.isRunning = TRUE,
              !.executedEvents = {},
              !.events = SortByTime(MarkSorted(t.events))]

stop(t) == [t EXCEPT !.isRunning = FALSE]

\* Mutant of reset: the set of fired ids survives the reset.
reset_KeepExecuted(t) ==
    [t EXCEPT !.currentTime = 0,
              !.isRunning = FALSE,
              !.events = MarkReset(t.events)]

reset(t) ==
    [t EXCEPT !.currentTime = 0,
              !.isRunning = FALSE,
              !.executedEvents = {},
              !.events = MarkReset(t.events)]

clearEvents(t) == [t EXCEPT !.events = <<>>, !.executedEvents = {}]

\* Mutants of IsDue: the fired set is not consulted; the comparison is strict.
IsDue_NoMark(e, clock, executed) == e.time <= clock

IsDue_Strict(e, clock, executed) == e.time < clock /\ e.id \notin executed

\* The condition of the if in update's loop.
IsDue(e, clock, executed) == e.time <= clock /\ e.id \notin executed

\* The body of that if for events[i]: mark the id, then call the handler.
\* st is the Timeline record with the log of invocations made so far.
Invoke(st, i) ==
    LET e == st.events[i] IN
    [st EXCEPT !.executedEvents = st.executedEvents \cup {e.id},
               !.events[i].fired = e.fired + 1,
               !.log = Append(st.log,
                   [time |-> e.time, id |-> e.id, running |-> st.isRunning]),
               !.isRunning = IF e.handler = "stop" THEN FALSE ELSE st.isRunning]

\* Mutant of FireFrom: the loop ends after the first invocation.
FireFrom_First(st, i) ==
    LET due == {k \in i .. Len(st.events) :
                    IsDue(st.events[k], st.currentTime, st.executedEvents)}
    IN IF due = {} THEN st
       ELSE Invoke(st, CHOOSE k \in due : \A m \in due : k <= m)

\* for (const event of this.events) from index i on.
RECURSIVE FireFrom(_, _)
FireFrom(st, i) ==
    IF i > Len(st.events) THEN st
    ELSE IF IsDue(st.events[i], st.currentTime, st.executedEvents)
         THEN FireFrom(Invoke(st, i), i + 1)
         ELSE FireFrom(st, i + 1)

WithLog(t) ==
    [events |-> t.events, currentTime |-> t.currentTime, isRunning |-> t.isRunning,
     executedEvents |-> t.executedEvents, log |-> <<>>]

\* Mutant of update: the early return on a stopped timeline is missing.
update_NoGuard(t, deltaTime) ==
    FireFrom(WithLog([t EXCEPT !.currentTime = t.currentTime + deltaTime]), 1)

update(t, deltaTime) ==
    IF ~t.isRunning THEN WithLog(t)
    ELSE FireFrom(WithLog([t EXCEPT !.currentTime = t.currentTime + deltaTime]), 1)

\* isComplete() is called by Game.update but Timeline.ts does not define it; it
\* is taken from the specification (section 4.1): true once the clock has passed
\* the time of the latest registered event.
isComplete(t) == \A i \in DOMAIN t.events : t.events[i].time < t.currentTime

getIsRunning(t) == t.isRunning

getCurrentTime(t) == t.currentTime

(***************************************************************************)
(* The calls a client makes on the timeline.                               *)
(***************************************************************************)
Install(t, op, log) ==
    /\ events' = t.events
    /\ currentTime' = t.currentTime
    /\ isRunning' = t.isRunning
    /\ executedEvents' = t.executedEvents
    /\ lastOp' = op
    /\ lastFired' = log
    /\ UNCHANGED <<aoeVars, chVars, buffVars, geoVars, abVars, gameVars>>

InitTimeline ==
    /\ events = <<>>
    /\ currentTime = 0
    /\ isRunning = FALSE
    /\ executedEvents = {}
    /\ lastOp = "new"
    /\ lastFired = <<>>
    /\ cycle = 0

InitAoE ==
    /\ activeAoEs = <<>>
    /\ timers = <<>>
    /\ allHits = <<>>
    /\ entities = <<>>
    /\ aoeOp = "new"
    /\ aoeArg = [id |-> "none"]
    /\ aoeRet = "void"

InitChakram ==
    /\ activeChakrams = <<>>
    /\ chHits = <<>>
    /\ chEntities = <<>>
    /\ chResolved = <<>>
    /\ chOp = "new"
    /\ chArg = "none"
    /\ chDelta = 0
    /\ chIdled = {}

InitBuff ==
    /\ activeEffects = <<>>
    /\ buffOp = "new"
    /\ buffArg = [entityId |-> "", effectId |-> ""]
    /\ buffExpired = <<>>

\* no collision query is under way
InitGeo ==
    /\ geoConfig = [shape |-> "none"]
    /\ geoPoint = <<0, 0>>
    /\ geoSlack = 0
    /\ geoInside = "none"
    /\ geoBefore = "none"

\* A tick is a quarter of a second.
TicksPerSecond == 2 * 2

\* ABILITIES.ARMS_LENGTH and ABILITIES.SPRINT
ARMS_LENGTH ==
    [id |-> "arms-length", name |-> "Arm's Length", cooldown |-> 120 * TicksPerSecond,
     hotkey |-> "1",
     buff |-> [id |-> "arms-length", name |-> "Arm's Length", type |-> "buff",
               duration |-> 6 * TicksPerSecond]]

SPRINT ==
    [id |-> "sprint", name |-> "Sprint", cooldown |-> 60 * TicksPerSecond,
     hotkey |-> "2",
     buff |-> [id |-> "sprint", name |-> "Sprint", type |-> "buff",
               duration |-> 10 * TicksPerSecond]]

\* new AbilitySystem(buffManager, 'player'): the constructor registers the two
\* abilities of ABILITIES, each ready
InitAbility ==
    /\ abilities = <<[config |-> ARMS_LENGTH, remainingCooldown |-> 0],
                     [config |-> SPRINT, remainingCooldown |-> 0]>>
    /\ abOp = "new"
    /\ abArg = [id |-> ""]
    /\ abRet = "void"

\* The value null of a field of type number | null; a number n is held as <<n>>.
null == <<>>

\* the fields of a new Game, before its script is registered
InitGame ==
    /\ gameState = "waiting"
    /\ successCheckTime = null
    /\ staleTimers = <<>>
    /\ gameOp = [op |-> "new", arg |-> [script |-> <<>>]]
    /\ gameLog = <<>>
    /\ zeroRun = 0
    /\ playerNumber = 1
    /\ forcedPlayerNumber = null
    /\ script = <<>>
    /\ lapsed = {}

Init ==
    /\ InitTimeline /\ InitAoE /\ InitChakram /\ InitBuff /\ InitGeo
    /\ InitAbility /\ InitGame

AddEvent ==
    \E e \in EventInputs :
        /\ Len(events) < MaxEvents
        /\ Install(addEvent(TL, e), "addEvent", <<>>)
        /\ UNCHANGED cycle

AddEvents ==
    \E e1 \in EventInputs, e2 \in EventInputs :
        /\ Len(events) + 2 <= MaxEvents
        /\ Install(addEvents(TL, <<e1, e2>>), "addEvents", <<>>)
        /\ UNCHANGED cycle

Start ==
    /\ Install(start(TL), "start", <<>>)
    /\ cycle' = IF cycle = 0 THEN 1 ELSE 2

Stop ==
    /\ Install(stop(TL), "stop", <<>>)
    /\ UNCHANGED cycle

Reset ==
    /\ Install(reset(TL), "reset", <<>>)
    /\ UNCHANGED cycle

ClearEvents ==
    /\ Install(clearEvents(TL), "clearEvents", <<>>)
    /\ UNCHANGED cycle

\* update(dt); lastOp tells a call on a running timeline from one on a stopped one.
Update ==
    \E dt \in Deltas :
        /\ isRunning => currentTime + dt <= MaxClock
        /\ LET st == update(TL, dt) IN
           Install(st, IF isRunning THEN "update" ELSE "updateStopped", st.log)
        /\ UNCHANGED cycle

Next ==
    \/ AddEvent
    \/ AddEvents
    \/ Start
    \/ Stop
    \/ Reset
    \/ ClearEvents
    \/ Update

\* The Timeline on its own.
Spec == Init /\ [][Next]_vars

(***************************************************************************)
(* Handlers that call back into the timeline.  for (const event of         *)
(* this.events) runs over the array that this.events held when the loop    *)
(* began; clearEvents() assigns a new array to this.events and leaves the  *)
(* one being iterated as it was.                                           *)
(***************************************************************************)
CallbackHandlers == {"noop", "clearEvents"}

CallbackInputs ==
    {TimelineEvent(t, i, h) : t \in Times, i \in EventIds, h \in CallbackHandlers}

\* The body of the if in update's loop for iterated[i], where iterated is
\* the array of the loop; cleared tells that a handler has replaced
\* this.events since the loop began.
InvokeHandler(st, i) ==
    LET e == st.iterated[i]
        marked == [st EXCEPT !.executedEvents = st.executedEvents \cup {e.id},
                             !.iterated[i].fired = e.fired + 1,
                             !.log = Append(st.log,
                                 [time |-> e.time, id |-> e.id, running |-> st.isRunning,
                                  afterClear |-> st.cleared])]
    IN CASE e.handler = "clearEvents" ->
              [marked EXCEPT !.events = <<>>, !.executedEvents = {}, !.cleared = TRUE]
         [] e.handler = "stop" -> [marked EXCEPT !.isRunning = FALSE]
         [] OTHER -> marked

\* Mutant of FireOver: the loop ends once this.events has been replaced.
RECURSIVE FireOver_Current(_, _)
FireOver_Current(st, i) ==
    IF i > Len(st.iterated) \/ st.cleared THEN st
    ELSE IF IsDue(st.iterated[i], st.currentTime, st.executedEvents)
         THEN FireOver_Current(InvokeHandler(st, i), i + 1)
         ELSE FireOver_Current(st, i + 1)

\* for (const event of this.events) from index i on.
RECURSIVE FireOver(_, _)
FireOver(st, i) ==
    IF i > Len(st.iterated) THEN st
    ELSE IF IsDue(st.iterated[i], st.currentTime, st.executedEvents)
         THEN FireOver(InvokeHandler(st, i), i + 1)
         ELSE FireOver(st, i + 1)

\* update(deltaTime) with such handlers registered.
updateCalling(t, deltaTime) ==
    IF ~t.isRunning THEN WithLog(t)
    ELSE LET st == FireOver([events |-> t.events,
                             currentTime |-> t.currentTime + deltaTime,
                             isRunning |-> t.isRunning,
                             executedEvents |-> t.executedEvents,
                             log |-> <<>>, iterated |-> t.events, cleared |-> FALSE], 1)
         IN [events |-> IF st.cleared THEN st.events ELSE st.iterated,
             currentTime |-> st.currentTime, isRunning |-> st.isRunning,
             executedEvents |-> st.executedEvents, log |-> st.log]

AddCallback ==
    \E e \in CallbackInputs :
        /\ Len(events) < MaxEvents
        /\ Install(addEvent(TL, e), "addEvent", <<>>)
        /\ UNCHANGED cycle

UpdateCalling ==
    \E dt \in Deltas :
        /\ isRunning => currentTime + dt <= MaxClock
        /\ LET st == updateCalling(TL, dt) IN
           Install(st, IF isRunning THEN "update" ELSE "updateStopped", st.log)
        /\ UNCHANGED cycle

NextCallbacks ==
    \/ AddCallback
    \/ Start
    \/ Stop
    \/ ClearEvents
    \/ UpdateCalling

\* The Timeline with handlers that call clearEvents().
SpecCallbacks == Init /\ [][NextCallbacks]_vars

(***************************************************************************)
(* AoEManager (src/src/AoEManager.ts).                                     *)
(*                                                                         *)
(* An AoEConfig is a record holding the fields its caller set; a field the *)
(* caller left out is absent, as it is undefined in the code.  Positions   *)
(* are (x, z) pairs; y is never read by the manager.                       *)
(***************************************************************************)
AoEIds == {"x", "y"}
\* at most this many removal callbacks are pending at once: one for each id
MaxTimers == Cardinality(AoEIds)
Teles == 1 .. MaxTele
\* elapsed times are followed this far
MaxElapsed == MaxTele + 1
AoEDeltas == 0 .. MaxTele

CircleConfig(id, tele) ==
    [id |-> id, shape |-> "circle", x |-> 0, z |-> 0, radius |-> 1,
     telegraphDuration |-> tele]

\* rotation is left out: config.rotation ?? 0
LineConfig(id, tele) ==
    [id |-> id, shape |-> "line", x |-> 0, z |-> 0, length |-> 1, width |-> 2,
     telegraphDuration |-> tele]

PuddleConfig(id, tele) ==
    [id |-> id, shape |-> "puddle", x |-> 0, z |-> 0, soakRadius |-> 1, soakCount |-> 1,
     telegraphDuration |-> tele]

\* A config whose shape tag is none of AoEShape.
UnknownConfig(id, tele) ==
    [id |-> id, shape |-> "ring", x |-> 0, z |-> 0, radius |-> 1,
     telegraphDuration |-> tele]

AoEConfigs ==
    {CircleConfig(id, t) : id \in AoEIds, t \in Teles}
        \cup {LineConfig(id, t) : id \in AoEIds, t \in Teles}
        \cup {PuddleConfig(id, t) : id \in AoEIds, t \in Teles}
        \cup {UnknownConfig(id, t) : id \in AoEIds, t \in Teles}

\* The radii respawnPuddle is called with.
Radii == {1, 2}

\* Vector3[] passed to checkPuddleSoak: (1, 0) is on the edge of a puddle of
\* radius 1, (2, 0) on the edge of one of radius 2, (2, 1) is outside both.
SoakPoints == {<<1, 0>>, <<2, 0>>, <<2, 1>>}

\* no position, one position, and a position outside followed by one inside
SoakLists ==
    {<<>>}
        \cup {<<[x |-> p[1], z |-> p[2]]>> : p \in SoakPoints \ {<<1, 0>>}}
        \cup {<<[x |-> 2, z |-> 1], [x |-> 1, z |-> 0]>>}

\* EntityPosition[]: the party, in the order Game.getAllPartyEntities lists it.
\* (1, 0) is on the edge of the circle and of the line, (0, 1) is on the edge of
\* the circle and outside the line, (1, 1) is outside both.
Points == {<<1, 0>>, <<0, 1>>, <<1, 1>>}

EntityLists ==
    {<<[id |-> "party-1", x |-> p[1], z |-> p[2]], [id |-> "party-2", x |-> q[1], z |-> q[2]]>> :
        p \in Points, q \in Points}

\* a ?? b
Opt(cfg, field, default) == IF field \in DOMAIN cfg THEN cfg[field] ELSE default

Abs(n) == IF n < 0 THEN -n ELSE n

has(aoes, id) == \E i \in DOMAIN aoes : aoes[i].config.id = id

\* this.activeAoEs.get(id), for an id the Map has
get(aoes, id) == aoes[CHOOSE i \in DOMAIN aoes : aoes[i].config.id = id]

\* the case labels of the switch of createMesh
KnownShapes == {"circle", "line", "cone", "tshape", "puddle", "plus"}

\* createMesh reaches default: throw new Error(`Unknown AoE shape: ...`)
createMeshThrows(config) == config.shape \notin KnownShapes

\* ActiveAoE.  resolveCalls counts the invocations of config.onResolve for this
\* instance; justResolved tells that it resolved in the most recent update call.
ActiveAoE(config) ==
    LET aoe == [config |-> config, elapsedTime |-> 0, resolved |-> FALSE,
                resolveCalls |-> 0, justResolved |-> FALSE]
    IN IF config.shape = "puddle"
       THEN [currentSoaks |-> 0,
             currentRadius |-> Opt(config, "soakRadius", Opt(config, "radius", 2)),
             isBeingSoaked |-> FALSE] @@ aoe
       ELSE aoe

\* The manager as one record.
AM == [activeAoEs |-> activeAoEs, timers |-> timers]

\* Mutant of spawn: the entry is set before the mesh is created.
spawn_SetFirst(m, config) ==
    IF has(m.activeAoEs, config.id) THEN m
    ELSE [m EXCEPT !.activeAoEs = Append(m.activeAoEs, ActiveAoE(config))]

\* Mutant of spawn: a live id is overwritten, as Map.set would.
spawn_Overwrite(m, config) ==
    IF createMeshThrows(config) THEN m
    ELSE IF has(m.activeAoEs, config.id)
    THEN [m EXCEPT !.activeAoEs =
            [i \in DOMAIN m.activeAoEs |->
                IF m.activeAoEs[i].config.id = config.id THEN ActiveAoE(config)
                ELSE m.activeAoEs[i]]]
    ELSE [m EXCEPT !.activeAoEs = Append(m.activeAoEs, ActiveAoE(config))]

\* The manager after spawn(config).  A live id returns after the warning;
\* createMesh runs, and may throw, before activeAoEs.set.
spawn(m, config) ==
    IF has(m.activeAoEs, config.id) THEN m
    ELSE IF createMeshThrows(config) THEN m
    ELSE [m EXCEPT !.activeAoEs = Append(m.activeAoEs, ActiveAoE(config))]

\* spawn(config) ends in the Error of createMesh.
spawnThrows(m, config) == ~has(m.activeAoEs, config.id) /\ createMeshThrows(config)

\* Mutant of checkCollision: the boundary of a shape is outside.
checkCollision_Strict(config, pos) ==
    LET dx == pos.x - config.x
        dz == pos.z - config.z
    IN CASE config.shape = "circle" ->
              dx * dx + dz * dz < config.radius * config.radius
         [] config.shape = "line" ->
              2 * Abs(dx) < config.width /\ 2 * Abs(dz) < config.length
         [] OTHER -> FALSE

\* checkCollision for the shapes of AoEConfigs.  With rotation 0, cos(-0) = 1
\* and sin(-0) = -0, so localX = dx and localZ = dz.  |local| <= size / 2 is
\* compared as 2 * |local| <= size, which is the same on these numbers.
checkCollision(config, pos) ==
    LET dx == pos.x - config.x
        dz == pos.z - config.z
    IN CASE config.shape = "circle" ->
              dx * dx + dz * dz <= config.radius * config.radius
         [] config.shape = "line" ->
              2 * Abs(dx) <= config.width /\ 2 * Abs(dz) <= config.length
         [] config.shape = "puddle" ->
              LET puddleRadius == Opt(config, "soakRadius", Opt(config, "radius", 2))
              IN dx * dx + dz * dz <= puddleRadius * puddleRadius
         [] OTHER -> FALSE

\* Mutant of RecordHits: only the first entity inside is recorded.
RECURSIVE RecordHits_FirstOnly(_, _, _)
RecordHits_FirstOnly(hits, config, ents) ==
    IF ents = <<>> THEN hits
    ELSE LET e == Head(ents) IN
         IF checkCollision(config, e)
         THEN (e.id :> (IF e.id \in DOMAIN hits THEN Append(hits[e.id], config.id)
                        ELSE <<config.id>>)) @@ hits
         ELSE RecordHits_FirstOnly(hits, config, Tail(ents))

\* for (const entity of entities): push the AoE's id on the list of every
\* entity inside.  hits is the Map allHits, a function on the ids it holds.
RECURSIVE RecordHits(_, _, _)
RecordHits(hits, config, ents) ==
    IF ents = <<>> THEN hits
    ELSE LET e == Head(ents)
             rest == Tail(ents)
         IN IF checkCollision(config, e)
            THEN RecordHits(
                    (e.id :> (IF e.id \in DOMAIN hits THEN Append(hits[e.id], config.id)
                              ELSE <<config.id>>)) @@ hits,
                    config, rest)
            ELSE RecordHits(hits, config, rest)

\* Mutant of ShouldResolve: a resolved AoE resolves again.
ShouldResolve_Again(aoe) == aoe.elapsedTime >= aoe.config.telegraphDuration

\* The condition of the resolution if of update.
ShouldResolve(aoe) == ~aoe.resolved /\ aoe.elapsedTime >= aoe.config.telegraphDuration

\* The resolution of the AoE: resolved, onResolve called, removal scheduled.
Resolve(aoe) ==
    [aoe EXCEPT !.resolved = TRUE,
                !.resolveCalls = aoe.resolveCalls + 1,
                !.justResolved = TRUE]

\* Mutant of PuddleExpires: a puddle resolves in its first update call.
PuddleExpires_Early(aoe) == ~aoe.resolved

\* updatePuddle: the opacity feedback is visual only; a puddle whose duration
\* has expired resolves without a collision check.
PuddleExpires(aoe) == ~aoe.resolved /\ aoe.elapsedTime >= aoe.config.telegraphDuration

\* One iteration of the loop of update on entry i.  st holds the entries, the
\* pending timers and the hit map so far.
UpdateOne(st, i, deltaTime, ents) ==
    LET aoe == [st.activeAoEs[i] EXCEPT !.elapsedTime = @ + deltaTime,
                                        !.justResolved = FALSE]
    IN IF aoe.config.shape = "puddle"
       THEN IF PuddleExpires(aoe)
            THEN [st EXCEPT !.activeAoEs[i] = Resolve(aoe),
                            !.timers = Append(st.timers, aoe.config.id)]
            ELSE [st EXCEPT !.activeAoEs[i] = aoe]
       ELSE IF ShouldResolve(aoe)
            THEN [st EXCEPT !.activeAoEs[i] = Resolve(aoe),
                            !.allHits = RecordHits(st.allHits, aoe.config, ents),
                            !.timers = Append(st.timers, aoe.config.id)]
            ELSE [st EXCEPT !.activeAoEs[i] = aoe]

\* for (const [id, aoe] of this.activeAoEs) from entry i on.
RECURSIVE UpdateFrom(_, _, _, _)
UpdateFrom(st, i, deltaTime, ents) ==
    IF i > Len(st.activeAoEs) THEN st
    ELSE UpdateFrom(UpdateOne(st, i, deltaTime, ents), i + 1, deltaTime, ents)

\* Mutant of updateAoEs: what resolved in the call is removed before it returns.
updateAoEs_RemoveNow(m, deltaTime, ents) ==
    LET st == UpdateFrom([activeAoEs |-> m.activeAoEs, timers |-> m.timers,
                          allHits |-> <<>>], 1, deltaTime, ents)
    IN [st EXCEPT !.activeAoEs = SelectSeq(st.activeAoEs, LAMBDA a : ~a.justResolved)]

updateAoEs(m, deltaTime, ents) ==
    UpdateFrom([activeAoEs |-> m.activeAoEs, timers |-> m.timers, allHits |-> <<>>],
               1, deltaTime, ents)

\* remove(id): Map.delete keeps the order of the other entries.
RECURSIVE Without(_, _)
Without(aoes, id) ==
    IF aoes = <<>> THEN <<>>
    ELSE IF Head(aoes).config.id = id THEN Without(Tail(aoes), id)
    ELSE <<Head(aoes)>> \o Without(Tail(aoes), id)

remove(m, id) == [m EXCEPT !.activeAoEs = Without(m.activeAoEs, id)]

\* Mutant of clear: the first entry of the Map survives.
clear_KeepFirst(m) ==
    IF m.activeAoEs = <<>> THEN m
    ELSE [m EXCEPT !.activeAoEs = <<Head(m.activeAoEs)>>]

\* clear: remove(id) for every key of the Map.  The pending timers stay.
RECURSIVE clear(_)
clear(m) ==
    IF m.activeAoEs = <<>> THEN m
    ELSE clear(remove(m, Head(m.activeAoEs).config.id))

\* dispose
dispose(m) == clear(m)

getActiveCount(m) == Len(m.activeAoEs)

\* Mutant of checkPuddleSoak: a soaked puddle is removed by the check.
checkPuddleSoak_Consume(m, id, positions) ==
    IF ~has(m.activeAoEs, id) \/ get(m.activeAoEs, id).config.shape # "puddle"
    THEN [m |-> m, result |-> FALSE]
    ELSE LET aoe == get(m.activeAoEs, id)
             soaked == \E k \in DOMAIN positions :
                 (positions[k].x - aoe.config.x) * (positions[k].x - aoe.config.x)
                     + (positions[k].z - aoe.config.z) * (positions[k].z - aoe.config.z)
                     <= aoe.currentRadius * aoe.currentRadius
         IN [m |-> IF soaked THEN remove(m, id) ELSE m, result |-> soaked]

\* Mutant of checkPuddleSoak: only the first position is looked at.
checkPuddleSoak_FirstOnly(m, id, positions) ==
    IF ~has(m.activeAoEs, id) \/ get(m.activeAoEs, id).config.shape # "puddle"
    THEN [m |-> m, result |-> FALSE]
    ELSE LET aoe == get(m.activeAoEs, id)
         IN [m |-> m,
             result |-> positions # <<>> /\
                 (positions[1].x - aoe.config.x) * (positions[1].x - aoe.config.x)
                     + (positions[1].z - aoe.config.z) * (positions[1].z - aoe.config.z)
                     <= aoe.currentRadius * aoe.currentRadius]

\* checkPuddleSoak(id, positions): m is the manager after the call, result the
\* boolean returned.  The function assigns nothing; the loop returns true at
\* the first position inside.
checkPuddleSoak(m, id, positions) ==
    IF ~has(m.activeAoEs, id) \/ get(m.activeAoEs, id).config.shape # "puddle"
    THEN [m |-> m, result |-> FALSE]
    ELSE LET aoe == get(m.activeAoEs, id)
             currentRadius ==
                 Opt(aoe, "currentRadius",
                     Opt(aoe.config, "soakRadius", Opt(aoe.config, "radius", 2)))
         IN [m |-> m,
             result |-> \E k \in DOMAIN positions :
                 LET dx == positions[k].x - aoe.config.x
                     dz == positions[k].z - aoe.config.z
                 IN dx * dx + dz * dz <= currentRadius * currentRadius]

\* Mutant of respawnPuddle: the old instance is kept and the spawn is refused.
respawnPuddle_NoRemove(m, id, newRadius, telegraphDuration) ==
    IF ~has(m.activeAoEs, id) \/ get(m.activeAoEs, id).config.shape # "puddle" THEN m
    ELSE LET old == get(m.activeAoEs, id).config
         IN spawn(m,
                  [id |-> id, shape |-> "puddle", x |-> old.x, z |-> old.z,
                   soakRadius |-> newRadius, soakCount |-> 1,
                   telegraphDuration |-> telegraphDuration])

\* Mutant of respawnPuddle: an id that is not live is spawned.
respawnPuddle_Create(m, id, newRadius, telegraphDuration) ==
    IF has(m.activeAoEs, id) /\ get(m.activeAoEs, id).config.shape # "puddle" THEN m
    ELSE spawn(remove(m, id),
               [id |-> id, shape |-> "puddle", x |-> 0, z |-> 0,
                soakRadius |-> newRadius, soakCount |-> 1,
                telegraphDuration |-> telegraphDuration])

\* respawnPuddle(id, newRadius, telegraphDuration): remove, then spawn a puddle
\* at the cloned position.  The new config has no onResolve.
respawnPuddle(m, id, newRadius, telegraphDuration) ==
    IF ~has(m.activeAoEs, id) \/ get(m.activeAoEs, id).config.shape # "puddle" THEN m
    ELSE LET old == get(m.activeAoEs, id).config
         IN spawn(remove(m, id),
                  [id |-> id, shape |-> "puddle", x |-> old.x, z |-> old.z,
                   soakRadius |-> newRadius, soakCount |-> 1,
                   telegraphDuration |-> telegraphDuration])

(***************************************************************************)
(* The calls made on the AoE manager, and the timer callbacks.             *)
(***************************************************************************)
InstallAoE(m, op, hits, ents) ==
    /\ activeAoEs' = m.activeAoEs
    /\ timers' = m.timers
    /\ allHits' = hits
    /\ entities' = ents
    /\ aoeOp' = op

\* a call without an id, returning nothing
Plain == aoeArg' = [id |-> "none"] /\ aoeRet' = "void"

Spawn ==
    \E config \in AoEConfigs :
        /\ InstallAoE(spawn(AM, config), "spawn", <<>>, <<>>)
        /\ aoeArg' = [id |-> config.id, shape |-> config.shape]
        /\ aoeRet' = IF spawnThrows(AM, config) THEN "throw" ELSE "void"
        /\ UNCHANGED <<tlVars, chVars, buffVars, geoVars, abVars, gameVars>>

AoEUpdate ==
    \E dt \in AoEDeltas, ents \in EntityLists :
        LET st == updateAoEs(AM, dt, ents) IN
        /\ \A i \in DOMAIN activeAoEs : activeAoEs[i].elapsedTime + dt <= MaxElapsed
        /\ Len(st.timers) <= MaxTimers
        /\ InstallAoE(st, "update", st.allHits, ents)
        /\ Plain
        /\ UNCHANGED <<tlVars, chVars, buffVars, geoVars, abVars, gameVars>>

Remove ==
    \E id \in AoEIds :
        /\ InstallAoE(remove(AM, id), "remove", <<>>, <<>>)
        /\ aoeArg' = [id |-> id]
        /\ aoeRet' = "void"
        /\ UNCHANGED <<tlVars, chVars, buffVars, geoVars, abVars, gameVars>>

Clear ==
    /\ InstallAoE(clear(AM), "clear", <<>>, <<>>)
    /\ Plain
    /\ UNCHANGED <<tlVars, chVars, buffVars, geoVars, abVars, gameVars>>

Dispose ==
    /\ InstallAoE(dispose(AM), "dispose", <<>>, <<>>)
    /\ Plain
    /\ UNCHANGED <<tlVars, chVars, buffVars, geoVars, abVars, gameVars>>

\* entities holds the positions passed.
CheckPuddleSoak ==
    \E id \in AoEIds, positions \in SoakLists :
        LET call == checkPuddleSoak(AM, id, positions) IN
        /\ InstallAoE(call.m, "checkPuddleSoak", <<>>, positions)
        /\ aoeArg' = [id |-> id]
        /\ aoeRet' = IF call.result THEN "true" ELSE "false"
        /\ UNCHANGED <<tlVars, chVars, buffVars, geoVars, abVars, gameVars>>

RespawnPuddle ==
    \E id \in AoEIds, newRadius \in Radii, telegraphDuration \in Teles :
        /\ InstallAoE(respawnPuddle(AM, id, newRadius, telegraphDuration),
                      "respawnPuddle", <<>>, <<>>)
        /\ aoeArg' = [id |-> id, radius |-> newRadius, tele |-> telegraphDuration]
        /\ aoeRet' = "void"
        /\ UNCHANGED <<tlVars, chVars, buffVars, geoVars, abVars, gameVars>>

\* The oldest pending callback runs: this.remove(id).
RemoveTimer ==
    /\ timers # <<>>
    /\ InstallAoE(remove([AM EXCEPT !.timers = Tail(timers)], Head(timers)),
                  "timer", <<>>, <<>>)
    /\ aoeArg' = [id |-> Head(timers)]
    /\ aoeRet' = "void"
    /\ UNCHANGED <<tlVars, chVars, buffVars, geoVars, abVars, gameVars>>

NextAoE ==
    \/ Spawn
    \/ AoEUpdate
    \/ Remove
    \/ Clear
    \/ Dispose
    \/ CheckPuddleSoak
    \/ RespawnPuddle
    \/ RemoveTimer

\* The AoE manager on its own.
SpecAoE == Init /\ [][NextAoE]_vars

(***************************************************************************)
(* ChakramManager (src/unnamed/part_013).                                  *)
(*                                                                         *)
(* A ChakramConfig holds the id, the start and end positions as (x, z),    *)
(* travelTime and hitRadius; radius only sizes the mesh.  Every chakram    *)
(* flies from (0, 0) to (2, 0): with a travelTime of 1 or 2 and whole      *)
(* elapsed times, (end - start) * elapsed / travelTime is a whole number.  *)
(***************************************************************************)
ChakramIds == {"p", "q"}
TravelTimes == {1, 2}
ChakramDeltas == 0 .. 2

ChakramConfig(id, travelTime) ==
    [id |-> id, startX |-> 0, startZ |-> 0, endX |-> 2, endZ |-> 0,
     travelTime |-> travelTime, hitRadius |-> 1]

ChakramConfigs == {ChakramConfig(id, t) : id \in ChakramIds, t \in TravelTimes}

\* (0, 0) is the start, (2, 0) the end, (0, 2) is further than hitRadius from
\* every point of the path.
ChakramPoints == {<<0, 0>>, <<2, 0>>, <<0, 2>>}

ChakramEntityLists ==
    {<<[id |-> "party-1", x |-> p[1], z |-> p[2]], [id |-> "party-2", x |-> q[1], z |-> q[2]]>> :
        p \in ChakramPoints, q \in ChakramPoints}

hasChakram(chakrams, id) == \E i \in DOMAIN chakrams : chakrams[i].config.id = id

\* ActiveChakram; x and z are mesh.position, set to startPosition at the spawn.
ActiveChakram(config, stationary) ==
    [config |-> config, elapsedTime |-> 0, resolved |-> FALSE, stationary |-> stationary,
     x |-> config.startX, z |-> config.startZ]

\* The manager as one record.
CM == [activeChakrams |-> activeChakrams]

\* Mutant of chakramSpawn: a live id is overwritten, as Map.set would.
chakramSpawn_Overwrite(m, config) ==
    IF hasChakram(m.activeChakrams, config.id)
    THEN [m EXCEPT !.activeChakrams =
            [i \in DOMAIN m.activeChakrams |->
                IF m.activeChakrams[i].config.id = config.id
                THEN ActiveChakram(config, FALSE) ELSE m.activeChakrams[i]]]
    ELSE [m EXCEPT !.activeChakrams = Append(m.activeChakrams, ActiveChakram(config, FALSE))]

\* ChakramManager.spawn
chakramSpawn(m, config) ==
    IF hasChakram(m.activeChakrams, config.id) THEN m
    ELSE [m EXCEPT !.activeChakrams = Append(m.activeChakrams, ActiveChakram(config, FALSE))]

spawnStationary(m, config) ==
    IF hasChakram(m.activeChakrams, config.id) THEN m
    ELSE [m EXCEPT !.activeChakrams = Append(m.activeChakrams, ActiveChakram(config, TRUE))]

\* Mutant of startMovement: an id that is not live is spawned moving.
startMovement_Create(m, id) ==
    IF ~hasChakram(m.activeChakrams, id)
    THEN [m EXCEPT !.activeChakrams =
            Append(m.activeChakrams, ActiveChakram(ChakramConfig(id, 1), FALSE))]
    ELSE [m EXCEPT !.activeChakrams =
            [i \in DOMAIN m.activeChakrams |->
                IF m.activeChakrams[i].config.id = id
                THEN [m.activeChakrams[i] EXCEPT !.stationary = FALSE, !.elapsedTime = 0]
                ELSE m.activeChakrams[i]]]

\* Mutant of startMovement: the elapsed time is kept.
startMovement_NoReset(m, id) ==
    IF ~hasChakram(m.activeChakrams, id) THEN m
    ELSE [m EXCEPT !.activeChakrams =
            [i \in DOMAIN m.activeChakrams |->
                IF m.activeChakrams[i].config.id = id
                THEN [m.activeChakrams[i] EXCEPT !.stationary = FALSE]
                ELSE m.activeChakrams[i]]]

\* Mutant of startMovement: a chakram that is moving already is left alone.
startMovement_OnlyIdle(m, id) ==
    IF ~hasChakram(m.activeChakrams, id) THEN m
    ELSE [m EXCEPT !.activeChakrams =
            [i \in DOMAIN m.activeChakrams |->
                IF m.activeChakrams[i].config.id = id /\ m.activeChakrams[i].stationary
                THEN [m.activeChakrams[i] EXCEPT !.stationary = FALSE, !.elapsedTime = 0]
                ELSE m.activeChakrams[i]]]

\* startMovement(id): an unknown id returns after the warning.
startMovement(m, id) ==
    IF ~hasChakram(m.activeChakrams, id) THEN m
    ELSE [m EXCEPT !.activeChakrams =
            [i \in DOMAIN m.activeChakrams |->
                IF m.activeChakrams[i].config.id = id
                THEN [m.activeChakrams[i] EXCEPT !.stationary = FALSE, !.elapsedTime = 0]
                ELSE m.activeChakrams[i]]]

Min(a, b) == IF a <= b THEN a ELSE b

\* start + (end - start) * progress with progress = Math.min(elapsed / travelTime, 1)
Lerp(startPos, endPos, elapsed, travelTime) ==
    startPos + ((endPos - startPos) * Min(elapsed, travelTime)) \div travelTime

\* Mutant of TravelComplete: the travel is complete only past travelTime.
TravelComplete_Late(elapsed, travelTime) == elapsed > travelTime

\* progress >= 1
TravelComplete(elapsed, travelTime) == elapsed >= travelTime

\* Mutant of ChakramHits: the boundary of the hit circle is outside.
RECURSIVE ChakramHits_Strict(_, _, _)
ChakramHits_Strict(hits, chakram, ents) ==
    IF ents = <<>> THEN hits
    ELSE LET e == Head(ents)
             dx == e.x - chakram.x
             dz == e.z - chakram.z
             id == chakram.config.id
         IN IF dx * dx + dz * dz < chakram.config.hitRadius * chakram.config.hitRadius
            THEN ChakramHits_Strict(
                    (e.id :> (IF e.id \in DOMAIN hits THEN Append(hits[e.id], id)
                              ELSE <<id>>)) @@ hits,
                    chakram, Tail(ents))
            ELSE ChakramHits_Strict(hits, chakram, Tail(ents))

\* for (const entity of entities): push the chakram's id on the list of every
\* entity within hitRadius of (currentX, currentZ).
RECURSIVE ChakramHits(_, _, _)
ChakramHits(hits, chakram, ents) ==
    IF ents = <<>> THEN hits
    ELSE LET e == Head(ents)
             dx == e.x - chakram.x
             dz == e.z - chakram.z
             id == chakram.config.id
         IN IF dx * dx + dz * dz <= chakram.config.hitRadius * chakram.config.hitRadius
            THEN ChakramHits(
                    (e.id :> (IF e.id \in DOMAIN hits THEN Append(hits[e.id], id)
                              ELSE <<id>>)) @@ hits,
                    chakram, Tail(ents))
            ELSE ChakramHits(hits, chakram, Tail(ents))

\* Mutant of ChakramStep: a stationary chakram is moved and tested like any other.
ChakramStep_NoSkip(st, chakram, deltaTime, ents) ==
    LET elapsed == chakram.elapsedTime + deltaTime
        travelTime == chakram.config.travelTime
        moved == [chakram EXCEPT
                    !.elapsedTime = elapsed,
                    !.x = Lerp(chakram.config.startX, chakram.config.endX, elapsed, travelTime),
                    !.z = Lerp(chakram.config.startZ, chakram.config.endZ, elapsed, travelTime)]
        hits == IF ~chakram.resolved THEN ChakramHits(st.allHits, moved, ents)
                ELSE st.allHits
    IN IF TravelComplete(elapsed, travelTime) /\ ~chakram.resolved
       THEN [st EXCEPT !.allHits = hits,
                       !.resolved = Append(st.resolved, chakram.config.id)]
       ELSE [st EXCEPT !.kept = Append(st.kept, moved), !.allHits = hits]

\* One iteration of the loop of update.  st.kept holds the entries visited so
\* far that stay in the Map, st.allHits the hit map, st.resolved the ids whose
\* travel completed: those are marked resolved, get onResolve called and are
\* removed within the iteration.
ChakramStep(st, chakram, deltaTime, ents) ==
    IF chakram.stationary THEN [st EXCEPT !.kept = Append(st.kept, chakram)]
    ELSE LET elapsed == chakram.elapsedTime + deltaTime
             travelTime == chakram.config.travelTime
             moved == [chakram EXCEPT
                         !.elapsedTime = elapsed,
                         !.x = Lerp(chakram.config.startX, chakram.config.endX,
                                    elapsed, travelTime),
                         !.z = Lerp(chakram.config.startZ, chakram.config.endZ,
                                    elapsed, travelTime)]
             hits == IF ~chakram.resolved THEN ChakramHits(st.allHits, moved, ents)
                     ELSE st.allHits
         IN IF TravelComplete(elapsed, travelTime) /\ ~chakram.resolved
            THEN [st EXCEPT !.allHits = hits,
                            !.resolved = Append(st.resolved, chakram.config.id)]
            ELSE [st EXCEPT !.kept = Append(st.kept, moved), !.allHits = hits]

\* for (const [id, chakram] of this.activeChakrams)
RECURSIVE ChakramLoop(_, _, _, _)
ChakramLoop(st, rest, deltaTime, ents) ==
    IF rest = <<>> THEN st
    ELSE ChakramLoop(ChakramStep(st, Head(rest), deltaTime, ents), Tail(rest),
                     deltaTime, ents)

\* ChakramManager.update
chakramUpdate(m, deltaTime, ents) ==
    LET st == ChakramLoop([kept |-> <<>>, allHits |-> <<>>, resolved |-> <<>>],
                          m.activeChakrams, deltaTime, ents)
    IN [activeChakrams |-> st.kept, allHits |-> st.allHits, resolved |-> st.resolved]

\* Mutant of chakramRemove: an unknown id empties the Map.
chakramRemove_All(m, id) ==
    IF hasChakram(m.activeChakrams, id)
    THEN [m EXCEPT !.activeChakrams =
            SelectSeq(m.activeChakrams, LAMBDA c : c.config.id # id)]
    ELSE [m EXCEPT !.activeChakrams = <<>>]

\* ChakramManager.remove
chakramRemove(m, id) ==
    [m EXCEPT !.activeChakrams = SelectSeq(m.activeChakrams, LAMBDA c : c.config.id # id)]

\* ChakramManager.clear
RECURSIVE chakramClear(_)
chakramClear(m) ==
    IF m.activeChakrams = <<>> THEN m
    ELSE chakramClear(chakramRemove(m, Head(m.activeChakrams).config.id))

\* ChakramManager.dispose
chakramDispose(m) == chakramClear(m)

\* ChakramManager.getActiveCount
chakramCount(m) == Len(m.activeChakrams)

ChakramLiveIds(chakrams) == {chakrams[i].config.id : i \in DOMAIN chakrams}

(***************************************************************************)
(* The calls made on the chakram manager.                                  *)
(***************************************************************************)
InstallChakram(m, op, id) ==
    /\ activeChakrams' = m.activeChakrams
    /\ chOp' = op
    /\ chArg' = id
    /\ chHits' = <<>>
    /\ chEntities' = <<>>
    /\ chResolved' = <<>>
    /\ chDelta' = 0
    /\ chIdled' = chIdled \cap ChakramLiveIds(m.activeChakrams)

ChakramSpawn ==
    \E config \in ChakramConfigs :
        /\ InstallChakram(chakramSpawn(CM, config), "spawn", config.id)
        /\ UNCHANGED <<tlVars, aoeVars, buffVars, geoVars, abVars, gameVars>>

SpawnStationary ==
    \E config \in ChakramConfigs :
        /\ InstallChakram(spawnStationary(CM, config), "spawnStationary", config.id)
        /\ UNCHANGED <<tlVars, aoeVars, buffVars, geoVars, abVars, gameVars>>

StartMovement ==
    \E id \in ChakramIds :
        /\ InstallChakram(startMovement(CM, id), "startMovement", id)
        /\ UNCHANGED <<tlVars, aoeVars, buffVars, geoVars, abVars, gameVars>>

ChakramUpdate ==
    \E dt \in ChakramDeltas, ents \in ChakramEntityLists :
        LET st == chakramUpdate(CM, dt, ents) IN
        /\ activeChakrams' = st.activeChakrams
        /\ chOp' = "update"
        /\ chArg' = "none"
        /\ chHits' = st.allHits
        /\ chEntities' = ents
        /\ chResolved' = st.resolved
        /\ chDelta' = dt
        /\ chIdled' =
              (chIdled \cup {activeChakrams[i].config.id : i \in
                                {j \in DOMAIN activeChakrams :
                                    activeChakrams[j].stationary /\ dt > 0}})
                  \cap ChakramLiveIds(st.activeChakrams)
        /\ UNCHANGED <<tlVars, aoeVars, buffVars, geoVars, abVars, gameVars>>

ChakramRemove ==
    \E id \in ChakramIds :
        /\ InstallChakram(chakramRemove(CM, id), "remove", id)
        /\ UNCHANGED <<tlVars, aoeVars, buffVars, geoVars, abVars, gameVars>>

ChakramClear ==
    /\ InstallChakram(chakramClear(CM), "clear", "none")
    /\ UNCHANGED <<tlVars, aoeVars, buffVars, geoVars, abVars, gameVars>>

ChakramDispose ==
    /\ InstallChakram(chakramDispose(CM), "dispose", "none")
    /\ UNCHANGED <<tlVars, aoeVars, buffVars, geoVars, abVars, gameVars>>

NextChakram ==
    \/ ChakramSpawn
    \/ SpawnStationary
    \/ StartMovement
    \/ ChakramUpdate
    \/ ChakramRemove
    \/ ChakramClear
    \/ ChakramDispose

\* The chakram manager on its own.
SpecChakram == Init /\ [][NextChakram]_vars

(***************************************************************************)
(* BuffManager (src/unnamed/part_009).                                     *)
(*                                                                         *)
(* activeEffects is a Map from getKey(entityId, effectId) to the active    *)
(* effect.  Entity ids and effect ids are strings, and the key is the text *)
(* entityId + ":" + effectId, so the ids below include ones that hold a    *)
(* colon.  Durations and elapsed times are whole seconds.                  *)
(***************************************************************************)
BuffEntities == {"player", "player:pet"}

EffectIds == {"sprint", "pet:sprint"}

Durations == {1, 2}

BuffDeltas == {1, 2}

StatusEffectConfig(id, duration) ==
    [id |-> id, name |-> id, type |-> "buff", duration |-> duration]

StatusEffectConfigs == {StatusEffectConfig(id, d) : id \in EffectIds, d \in Durations}

\* getKey: `${entityId}:${effectId}`
getKey(entityId, effectId) == entityId \o ":" \o effectId

BM == [activeEffects |-> activeEffects]

hasKey(effects, key) == \E i \in DOMAIN effects : effects[i].key = key

getEffect(effects, key) ==
    effects[CHOOSE i \in DOMAIN effects : effects[i].key = key]

\* Map.set(key, value): a key the Map holds keeps its place
MapSet(effects, key, value) ==
    IF hasKey(effects, key)
    THEN [i \in DOMAIN effects |-> IF effects[i].key = key THEN value ELSE effects[i]]
    ELSE Append(effects, value)

RECURSIVE MapDelete(_, _)
MapDelete(effects, key) ==
    IF effects = <<>> THEN <<>>
    ELSE IF Head(effects).key = key THEN MapDelete(Tail(effects), key)
    ELSE <<Head(effects)>> \o MapDelete(Tail(effects), key)

\* apply(entityId, config)
buffApply(m, entityId, config) ==
    LET key == getKey(entityId, config.id)
    IN [m EXCEPT !.activeEffects =
            MapSet(m.activeEffects, key,
                   [key |-> key, config |-> config,
                    remainingTime |-> config.duration, entityId |-> entityId])]

\* remove(entityId, effectId)
buffRemove(m, entityId, effectId) ==
    [m EXCEPT !.activeEffects = MapDelete(m.activeEffects, getKey(entityId, effectId))]

\* has(entityId, effectId)
buffHas(m, entityId, effectId) == hasKey(m.activeEffects, getKey(entityId, effectId))

\* get(entityId, effectId): "undefined", or the config and the remaining time
buffGet(m, entityId, effectId) ==
    LET key == getKey(entityId, effectId)
    IN IF ~hasKey(m.activeEffects, key) THEN "undefined"
       ELSE [config |-> getEffect(m.activeEffects, key).config,
             remainingTime |-> getEffect(m.activeEffects, key).remainingTime]

\* getAll(entityId): the effects whose entityId field is entityId, in Map order
RECURSIVE buffGetAll(_, _)
buffGetAll(effects, entityId) ==
    IF effects = <<>> THEN <<>>
    ELSE (IF Head(effects).entityId = entityId
          THEN <<[config |-> Head(effects).config,
                  remainingTime |-> Head(effects).remainingTime]>>
          ELSE <<>>) \o buffGetAll(Tail(effects), entityId)

\* Mutant of Expired: an effect expires only below 0.
Expired_Below(remainingTime) == remainingTime < 0

\* effect.remainingTime <= 0
Expired(remainingTime) == remainingTime <= 0

\* update(deltaTime): the loop over the Map.  Deleting the entry being visited
\* does not disturb the iteration over the entries after it.
RECURSIVE buffLoop(_, _)
buffLoop(effects, deltaTime) ==
    IF effects = <<>> THEN [activeEffects |-> <<>>, expired |-> <<>>]
    ELSE LET effect == [Head(effects) EXCEPT !.remainingTime = @ - deltaTime]
             rest == buffLoop(Tail(effects), deltaTime)
         IN IF Expired(effect.remainingTime)
            THEN [rest EXCEPT !.expired = <<effect.config.id>> \o @]
            ELSE [rest EXCEPT !.activeEffects = <<effect>> \o @]

buffUpdate(m, deltaTime) == buffLoop(m.activeEffects, deltaTime)

\* clearEntity(entityId)
RECURSIVE clearEntityLoop(_, _)
clearEntityLoop(effects, entityId) ==
    IF effects = <<>> THEN <<>>
    ELSE IF Head(effects).entityId = entityId THEN clearEntityLoop(Tail(effects), entityId)
    ELSE <<Head(effects)>> \o clearEntityLoop(Tail(effects), entityId)

clearEntity(m, entityId) ==
    [m EXCEPT !.activeEffects = clearEntityLoop(m.activeEffects, entityId)]

buffClear(m) == [m EXCEPT !.activeEffects = <<>>]

buffDispose(m) == buffClear(m)

(***************************************************************************)
(* The calls made on the buff manager.                                     *)
(***************************************************************************)
InstallBuff(m, op, arg) ==
    /\ activeEffects' = m.activeEffects
    /\ buffOp' = op
    /\ buffArg' = arg
    /\ buffExpired' = <<>>
    /\ UNCHANGED <<tlVars, aoeVars, chVars, geoVars, abVars, gameVars>>

BuffApply ==
    \E entityId \in BuffEntities, config \in StatusEffectConfigs :
        InstallBuff(buffApply(BM, entityId, config), "apply",
                    [entityId |-> entityId, effectId |-> config.id])

BuffRemove ==
    \E entityId \in BuffEntities, effectId \in EffectIds :
        InstallBuff(buffRemove(BM, entityId, effectId), "remove",
                    [entityId |-> entityId, effectId |-> effectId])

BuffUpdateBy(deltaTime) ==
    LET r == buffUpdate(BM, deltaTime)
    IN /\ activeEffects' = r.activeEffects
       /\ buffOp' = "update"
       /\ buffArg' = [deltaTime |-> deltaTime]
       /\ buffExpired' = r.expired
       /\ UNCHANGED <<tlVars, aoeVars, chVars, geoVars, abVars, gameVars>>

BuffUpdate == \E deltaTime \in BuffDeltas : BuffUpdateBy(deltaTime)

ClearEntity ==
    \E entityId \in BuffEntities :
        InstallBuff(clearEntity(BM, entityId), "clearEntity",
                    [entityId |-> entityId, effectId |-> ""])

BuffClear == InstallBuff(buffClear(BM), "clear", [entityId |-> "", effectId |-> ""])

BuffDispose == InstallBuff(buffDispose(BM), "dispose", [entityId |-> "", effectId |-> ""])

NextBuff ==
    \/ BuffApply
    \/ BuffRemove
    \/ BuffUpdate
    \/ ClearEntity
    \/ BuffClear
    \/ BuffDispose

SpecBuff == Init /\ [][NextBuff]_vars

(***************************************************************************)
(* AbilitySystem (src/src/AbilitySystem.ts).                               *)
(*                                                                         *)
(* abilities is a Map from ability id to {config, remainingCooldown}.  A   *)
(* tick is a quarter of a second, so that the half second Game waits       *)
(* before it declares success is a whole number of ticks; cooldowns and    *)
(* durations are the configured seconds in ticks (TicksPerSecond).         *)
(***************************************************************************)
\* An AbilityConfig whose optional buff is left out.
DODGE ==
    [id |-> "dodge", name |-> "Dodge", cooldown |-> 50 * TicksPerSecond, hotkey |-> "3"]

\* the configs registerAbility is called with after construction
AbilityConfigs == {SPRINT, DODGE}

\* the ids use is called with: "nonexistent" is never registered
AbilityIds == {"arms-length", "sprint", "dodge", "nonexistent"}

\* the deltaTime of update: 50 s and 70 s, so that a cooldown of 120 s reaches
\* exactly 0 and one of 60 s is overshot
AbilityDeltas == {50 * TicksPerSecond, 70 * TicksPerSecond}

\* The ability system as one record, with the buff manager it was built on.
AS == [abilities |-> abilities, entityId |-> "player", buffManager |-> BM]

hasAbility(states, id) == \E i \in DOMAIN states : states[i].config.id = id

\* this.abilities.get(id), for an id the Map has
getAbility(states, id) == states[CHOOSE i \in DOMAIN states : states[i].config.id = id]

\* this.abilities.set(id, state): an id the Map holds keeps its place
setAbility(states, id, state) ==
    IF hasAbility(states, id)
    THEN [i \in DOMAIN states |-> IF states[i].config.id = id THEN state ELSE states[i]]
    ELSE Append(states, state)

\* registerAbility(config)
registerAbility(s, config) ==
    [s EXCEPT !.abilities =
        setAbility(s.abilities, config.id, [config |-> config, remainingCooldown |-> 0])]

\* The result of use: the system after the call, what the call returned, and
\* whether it called buffManager.apply.
Used(s, ret, applied) ==
    [abilities |-> s.abilities, entityId |-> s.entityId, buffManager |-> s.buffManager,
     ret |-> ret, applied |-> applied]

\* Mutant of use: the cooldown is not consulted.
use_NoGate(s, abilityId) ==
    IF ~hasAbility(s.abilities, abilityId) THEN Used(s, FALSE, FALSE)
    ELSE LET state == getAbility(s.abilities, abilityId)
             started == [s EXCEPT !.abilities =
                            setAbility(s.abilities, abilityId,
                                [state EXCEPT !.remainingCooldown = state.config.cooldown])]
         IN IF "buff" \in DOMAIN state.config
            THEN Used([started EXCEPT !.buffManager =
                          buffApply(s.buffManager, s.entityId, state.config.buff)],
                      TRUE, TRUE)
            ELSE Used(started, TRUE, FALSE)

\* use(abilityId)
use(s, abilityId) ==
    IF ~hasAbility(s.abilities, abilityId) THEN Used(s, FALSE, FALSE)
    ELSE LET state == getAbility(s.abilities, abilityId)
             started == [s EXCEPT !.abilities =
                            setAbility(s.abilities, abilityId,
                                [state EXCEPT !.remainingCooldown = state.config.cooldown])]
         IN IF state.remainingCooldown > 0 THEN Used(s, FALSE, FALSE)
            ELSE IF "buff" \in DOMAIN state.config
            THEN Used([started EXCEPT !.buffManager =
                          buffApply(s.buffManager, s.entityId, state.config.buff)],
                      TRUE, TRUE)
            ELSE Used(started, TRUE, FALSE)

\* isReady(abilityId)
isReady(s, abilityId) ==
    IF ~hasAbility(s.abilities, abilityId) THEN FALSE
    ELSE getAbility(s.abilities, abilityId).remainingCooldown <= 0

\* Mutant of getCooldown: the stored value is returned as it is.
getCooldown_Raw(s, abilityId) ==
    IF ~hasAbility(s.abilities, abilityId) THEN "undefined"
    ELSE getAbility(s.abilities, abilityId).remainingCooldown

\* getCooldown(abilityId): "undefined", or Math.max(0, remainingCooldown)
getCooldown(s, abilityId) ==
    IF ~hasAbility(s.abilities, abilityId) THEN "undefined"
    ELSE LET remaining == getAbility(s.abilities, abilityId).remainingCooldown
         IN IF remaining > 0 THEN remaining ELSE 0

\* getAbilities(): the ids, in Map order
getAbilities(s) == [i \in DOMAIN s.abilities |-> s.abilities[i].config.id]

\* update(deltaTime)
abilityUpdate(s, deltaTime) ==
    [s EXCEPT !.abilities =
        [i \in DOMAIN s.abilities |->
            IF s.abilities[i].remainingCooldown > 0
            THEN [s.abilities[i] EXCEPT !.remainingCooldown = @ - deltaTime]
            ELSE s.abilities[i]]]

\* Mutant of abilityReset: the first ability keeps its cooldown.
abilityReset_KeepFirst(s) ==
    [s EXCEPT !.abilities =
        [i \in DOMAIN s.abilities |->
            IF i = 1 THEN s.abilities[i]
            ELSE [s.abilities[i] EXCEPT !.remainingCooldown = 0]]]

\* reset()
abilityReset(s) ==
    [s EXCEPT !.abilities =
        [i \in DOMAIN s.abilities |-> [s.abilities[i] EXCEPT !.remainingCooldown = 0]]]

\* dispose()
abilityDispose(s) == [s EXCEPT !.abilities = <<>>]

(***************************************************************************)
(* The calls made on the ability system.                                   *)
(***************************************************************************)
InstallAbility(s, op, arg, ret) ==
    /\ abilities' = s.abilities
    /\ abOp' = op
    /\ abArg' = arg
    /\ abRet' = ret
    /\ UNCHANGED <<tlVars, aoeVars, chVars, geoVars, gameVars>>

RegisterAbility ==
    \E config \in AbilityConfigs :
        /\ InstallAbility(registerAbility(AS, config), "registerAbility", [id |-> config.id], "void")
        /\ UNCHANGED buffVars

\* use(abilityId); a call that reaches buffManager.apply is a call on the buff
\* manager as well.
Use ==
    \E abilityId \in AbilityIds :
        LET r == use(AS, abilityId)
        IN /\ InstallAbility(r, "use", [id |-> abilityId], IF r.ret THEN "true" ELSE "false")
           /\ activeEffects' = r.buffManager.activeEffects
           /\ buffOp' = IF r.applied THEN "apply" ELSE buffOp
           /\ buffArg' = IF r.applied
                         THEN [entityId |-> r.entityId,
                               effectId |-> getAbility(abilities, abilityId).config.buff.id]
                         ELSE buffArg
           /\ buffExpired' = IF r.applied THEN <<>> ELSE buffExpired

AbilityUpdate ==
    \E deltaTime \in AbilityDeltas :
        /\ InstallAbility(abilityUpdate(AS, deltaTime), "update", [deltaTime |-> deltaTime], "void")
        /\ UNCHANGED buffVars

AbilityReset ==
    /\ InstallAbility(abilityReset(AS), "reset", [id |-> ""], "void")
    /\ UNCHANGED buffVars

AbilityDispose ==
    /\ InstallAbility(abilityDispose(AS), "dispose", [id |-> ""], "void")
    /\ UNCHANGED buffVars

\* buffManager.update(deltaTime) on the buffs the abilities applied: 4 s leave
\* a buff of 6 s active, 6 s end it
BuffElapse ==
    \E deltaTime \in {4 * TicksPerSecond, 6 * TicksPerSecond} : BuffUpdateBy(deltaTime)

\* The ability system, and the time that passes for the buffs it applied.
NextAbility ==
    \/ RegisterAbility
    \/ Use
    \/ AbilityUpdate
    \/ AbilityReset
    \/ AbilityDispose
    \/ BuffElapse

SpecAbility == Init /\ [][NextAbility]_vars

(***************************************************************************)
(* Game (src/unnamed/part_007): the attempt state machine, the hit rules   *)
(* and the frame update that drives the timeline, the managers, the buffs  *)
(* and the abilities.                                                      *)
(*                                                                         *)
(* The script is data: a script of the model is a short list of events,    *)
(* each under an id of setupTestTimeline and with what its handler does to *)
(* the managers.  The hit rules look at ids only, so the AoEs take the     *)
(* shapes modelled above.  The party is the player and one NPC.            *)
(***************************************************************************)
PartyNumbers == {1, 2}

\* getEntityId(partyNum): `party-${partyNum}`
getEntityId(partyNum) == IF partyNum = 1 THEN "party-1" ELSE "party-2"

\* parseInt(entityId.split('-')[1])
PartyNumberOf(entityId) == IF entityId = "party-1" THEN 1 ELSE 2

\* id.startsWith('bj-cone') and id.startsWith('cc-') on the ids of the scripts
IsBjCone(id) == id \in {"bj-cone-0"}

IsCruiseChaser(id) == id \in {"cc-dash-2", "cc-dash-4"}

\* DEBUFFS
MAGIC_VULN ==
    [id |-> "magic-vuln", name |-> "Magic Vulnerability Up", type |-> "debuff",
     duration |-> 10 * TicksPerSecond]

PHYSICAL_VULN ==
    [id |-> "physical-vuln", name |-> "Physical Vulnerability Up", type |-> "debuff",
     duration |-> 17 * TicksPerSecond]

\* successDelayAfterLastAoE = 0.5
successDelayAfterLastAoE == TicksPerSecond \div 2

\* The chakram of the script: it flies a second, from (5, 0) to (1, 0), and
\* after elapsed ticks it is at (5 - elapsed, 0).
EastChakram ==
    [id |-> "chakram-east", startX |-> 5, startZ |-> 0, endX |-> 1, endZ |-> 0,
     travelTime |-> TicksPerSecond, hitRadius |-> 1]

\* A stationary chakram is spawned, a cone of Brute Justice follows, then the
\* chakram is fired.
TestScript ==
    <<TimelineEvent(0, "chakrams-spawn", "script"), TimelineEvent(1, "bj-cone-0", "script"),
      TimelineEvent(2, "chakrams-fire", "script")>>

\* Two dashes of Cruise Chaser, one second apart.
CruiseScript ==
    <<TimelineEvent(TicksPerSecond, "cc-dash-2", "script"),
      TimelineEvent(2 * TicksPerSecond, "cc-dash-4", "script")>>

\* The Game as one record.  log holds the calls of the handler under way that
\* may assign gameState, each with the state it found and the state it left;
\* fired holds the timeline events the handler invoked.
GM ==
    [gameState |-> gameState, successCheckTime |-> successCheckTime,
     playerNumber |-> playerNumber, forcedPlayerNumber |-> forcedPlayerNumber,
     script |-> script, timeline |-> TL, aoeManager |-> AM, staleTimers |-> staleTimers,
     chakramManager |-> CM, buffManager |-> BM, abilities |-> abilities,
     lapsed |-> lapsed, zeroRun |-> zeroRun,
     log |-> <<>>, fired |-> <<>>, allHits |-> <<>>]

Logged(g, call, to) == Append(g.log, [call |-> call, state |-> g.gameState, to |-> to])

\* Mutant of triggerFailure: the state is not tested.
triggerFailure_Always(g) ==
    [g EXCEPT !.gameState = "failed", !.timeline = stop(g.timeline),
              !.log = Logged(g, "triggerFailure", "failed")]

triggerFailure(g) ==
    IF g.gameState # "playing"
    THEN [g EXCEPT !.log = Logged(g, "triggerFailure", g.gameState)]
    ELSE [g EXCEPT !.gameState = "failed", !.timeline = stop(g.timeline),
                   !.log = Logged(g, "triggerFailure", "failed")]

triggerSuccess(g) ==
    IF g.gameState # "playing"
    THEN [g EXCEPT !.log = Logged(g, "triggerSuccess", g.gameState)]
    ELSE [g EXCEPT !.gameState = "clear", !.timeline = stop(g.timeline),
                   !.log = Logged(g, "triggerSuccess", "clear")]

startMechanic(g) ==
    [g EXCEPT !.gameState = "playing", !.timeline = start(g.timeline),
              !.log = Logged(g, "startMechanic", "playing")]

\* setupTestTimeline: the player number is the forced one or, with roll the
\* outcome of Math.random, a random one; then the script is registered.
setupTestTimeline(g, roll) ==
    [g EXCEPT !.playerNumber = IF g.forcedPlayerNumber # null
                               THEN g.forcedPlayerNumber[1] ELSE roll,
              !.timeline = addEvents(g.timeline, g.script)]

\* Mutant of restart: the events of the timeline are kept.
restart_KeepEvents(g, roll) ==
    setupTestTimeline(
        [g EXCEPT !.gameState = "waiting",
                  !.log = Logged(g, "restart", "waiting"),
                  !.successCheckTime = null,
                  !.timeline = reset(g.timeline),
                  !.aoeManager = [activeAoEs |-> <<>>, timers |-> <<>>],
                  !.staleTimers = g.staleTimers \o dispose(g.aoeManager).timers,
                  !.chakramManager = [activeChakrams |-> <<>>],
                  !.abilities = abilityReset([abilities |-> g.abilities]).abilities,
                  !.buffManager = clearEntity(g.buffManager, "player"),
                  !.lapsed = {}],
        roll)

\* restart().  The managers are disposed and replaced by new ones; the
\* removal callbacks the old AoE manager has pending stay bound to it.
restart(g, roll) ==
    setupTestTimeline(
        [g EXCEPT !.gameState = "waiting",
                  !.log = Logged(g, "restart", "waiting"),
                  !.successCheckTime = null,
                  !.timeline = clearEvents(reset(g.timeline)),
                  !.aoeManager = [activeAoEs |-> <<>>, timers |-> <<>>],
                  !.staleTimers = g.staleTimers \o dispose(g.aoeManager).timers,
                  !.chakramManager = [activeChakrams |-> <<>>],
                  !.abilities = abilityReset([abilities |-> g.abilities]).abilities,
                  !.buffManager = clearEntity(g.buffManager, "player"),
                  !.lapsed = {}],
        roll)

\* onNumberSelect(num); num is null or <<n>> for the party number n
onNumberSelect(g, num, roll) == restart([g EXCEPT !.forcedPlayerNumber = num], roll)

\* abilitySystem.use(abilityId) as Game calls it
useAbility(g, abilityId) ==
    LET r == use([abilities |-> g.abilities, entityId |-> "player",
                  buffManager |-> g.buffManager], abilityId)
    IN [g EXCEPT !.abilities = r.abilities, !.buffManager = r.buffManager]

\* onKeyDown for the keys "r", "1" and "2", and handleGamepadInput for the
\* buttons 0, 2 and 1, which do the same.
onKeyDown(g, key, roll) ==
    LET after == IF key = "r"
                 THEN IF g.gameState = "waiting" THEN startMechanic(g)
                      ELSE IF g.gameState \in {"failed", "clear"} THEN restart(g, roll)
                      ELSE g
                 ELSE g
    IN IF after.gameState # "playing" THEN after
       ELSE IF key = "1" THEN useAbility(after, "arms-length")
       ELSE IF key = "2" THEN useAbility(after, "sprint")
       ELSE after

handleGamepadInput(g, button, roll) ==
    onKeyDown(g, CASE button = 0 -> "r" [] button = 2 -> "1" [] button = 1 -> "2"
                   [] OTHER -> "none", roll)

\* The handler of the script event e.  Telegraphs of 0.2 s to 0.5 s last
\* one or two ticks.
RunHandler(g, e) ==
    CASE e.id = "chakrams-spawn" ->
            [g EXCEPT !.chakramManager = spawnStationary(g.chakramManager, EastChakram)]
      [] e.id = "chakrams-fire" ->
            [g EXCEPT !.chakramManager = startMovement(g.chakramManager, "chakram-east"),
                      !.aoeManager = spawn(g.aoeManager, LineConfig("chakram-east-line", 1))]
      [] IsBjCone(e.id) ->
            [g EXCEPT !.aoeManager = spawn(g.aoeManager, CircleConfig(e.id, 1))]
      [] IsCruiseChaser(e.id) ->
            [g EXCEPT !.aoeManager =
                spawn(g.aoeManager, LineConfig(e.id, successDelayAfterLastAoE))]
      [] OTHER -> g

\* timeline.update(deltaTime) with the handlers of the script.
RECURSIVE GameFireFrom(_, _)
GameFireFrom(g, i) ==
    IF i > Len(g.timeline.events) THEN g
    ELSE LET e == g.timeline.events[i] IN
         IF IsDue(e, g.timeline.currentTime, g.timeline.executedEvents)
         THEN GameFireFrom(
                 RunHandler(
                    [g EXCEPT !.timeline.executedEvents = @ \cup {e.id},
                              !.timeline.events[i].fired = e.fired + 1,
                              !.fired = Append(g.fired,
                                  [time |-> e.time, id |-> e.id,
                                   running |-> g.timeline.isRunning])],
                    e),
                 i + 1)
         ELSE GameFireFrom(g, i + 1)

timelineUpdate(g, deltaTime) ==
    IF ~g.timeline.isRunning THEN g
    ELSE GameFireFrom([g EXCEPT !.timeline.currentTime = @ + deltaTime], 1)

\* The cc- branch of applyAoEDebuffsToEntity.
CruiseChaserHit(g, entityId, isPlayer) ==
    LET buffEntityId == IF isPlayer THEN "player" ELSE entityId IN
    IF buffHas(g.buffManager, buffEntityId, "physical-vuln")
    THEN [g |-> triggerFailure(g), return |-> TRUE]
    ELSE IF isPlayer /\ ~buffHas(g.buffManager, "player", "arms-length")
    THEN [g |-> triggerFailure(g), return |-> TRUE]
    ELSE [g |-> [g EXCEPT !.buffManager =
                    buffApply(buffApply(g.buffManager, buffEntityId, MAGIC_VULN),
                              buffEntityId, PHYSICAL_VULN)],
          return |-> FALSE]

\* applyAoEDebuffsToEntity(entityId, partyNum, hitIds)
RECURSIVE applyAoEDebuffsToEntity(_, _, _, _)
applyAoEDebuffsToEntity(g, entityId, partyNum, hitIds) ==
    IF hitIds = <<>> THEN g
    ELSE LET id == Head(hitIds)
             isPlayer == partyNum = g.playerNumber
         IN IF IsBjCone(id) THEN triggerFailure(g)
            ELSE IF id = "ap-plus" THEN triggerFailure(g)
            ELSE IF IsCruiseChaser(id)
            THEN LET r == CruiseChaserHit(g, entityId, isPlayer) IN
                 IF r.return THEN r.g
                 ELSE applyAoEDebuffsToEntity(r.g, entityId, partyNum, Tail(hitIds))
            ELSE applyAoEDebuffsToEntity(g, entityId, partyNum, Tail(hitIds))

\* The keys of the Map allHits in insertion order: update visits the AoEs in
\* Map order and, for one that resolves, the entities in list order.
RECURSIVE AddHitters(_, _, _, _)
AddHitters(order, aoeId, ents, hits) ==
    IF ents = <<>> THEN order
    ELSE LET e == Head(ents).id
             inside == e \in DOMAIN hits /\ \E k \in DOMAIN hits[e] : hits[e][k] = aoeId
             seen == \E k \in DOMAIN order : order[k] = e
         IN AddHitters(IF inside /\ ~seen THEN Append(order, e) ELSE order,
                       aoeId, Tail(ents), hits)

RECURSIVE HitOrder(_, _, _, _)
HitOrder(order, aoes, ents, hits) ==
    IF aoes = <<>> THEN order
    ELSE HitOrder(AddHitters(order, Head(aoes).config.id, ents, hits),
                  Tail(aoes), ents, hits)

\* the entities that aoeId hit
HitBy(hits, aoeId) == {e \in DOMAIN hits : \E k \in DOMAIN hits[e] : hits[e][k] = aoeId}

\* some cc- AoE hit more than one entity
SharedCruiseChaser(hits) ==
    \E e \in DOMAIN hits : \E k \in DOMAIN hits[e] :
        IsCruiseChaser(hits[e][k]) /\ Cardinality(HitBy(hits, hits[e][k])) > 1

RECURSIVE ApplyEach(_, _, _)
ApplyEach(g, order, hits) ==
    IF order = <<>> THEN g
    ELSE ApplyEach(
            applyAoEDebuffsToEntity(g, Head(order), PartyNumberOf(Head(order)),
                                    hits[Head(order)]),
            Tail(order), hits)

\* Mutant of processAoEHits: a cc- AoE shared by several entities is treated
\* like any other hit.
processAoEHits_NoShared(g, hits, order) == ApplyEach(g, order, hits)

\* processAoEHits(allHits); order is the insertion order of allHits
processAoEHits(g, hits, order) ==
    IF SharedCruiseChaser(hits) THEN triggerFailure(g)
    ELSE ApplyEach(g, order, hits)

\* processChakramHits(allHits)
processChakramHits(g, hits) ==
    IF \E e \in DOMAIN hits : Len(hits[e]) > 0 THEN triggerFailure(g) ELSE g

\* Mutant of successCheck: success is declared as soon as no AoE is live.
successCheck_NoDelay(g, deltaTime) ==
    IF g.gameState = "playing" /\ isComplete(g.timeline)
    THEN IF getActiveCount(g.aoeManager) = 0
         THEN triggerSuccess([g EXCEPT !.successCheckTime = <<deltaTime>>])
         ELSE [g EXCEPT !.successCheckTime = null]
    ELSE g

\* The success check that ends Game.update.
successCheck(g, deltaTime) ==
    IF g.gameState = "playing" /\ isComplete(g.timeline)
    THEN IF getActiveCount(g.aoeManager) = 0
         THEN LET waited == (IF g.successCheckTime = null THEN 0
                             ELSE g.successCheckTime[1]) + deltaTime
                  timed == [g EXCEPT !.successCheckTime = <<waited>>]
              IN IF waited >= successDelayAfterLastAoE THEN triggerSuccess(timed)
                 ELSE timed
         ELSE [g EXCEPT !.successCheckTime = null]
    ELSE g

\* buffManager.update(deltaTime), with the entities noted whose physical-vuln
\* it ends
updateBuffs(g, deltaTime) ==
    LET after == [activeEffects |-> buffUpdate(g.buffManager, deltaTime).activeEffects]
    IN [g EXCEPT !.buffManager = after,
                 !.lapsed = g.lapsed \cup
                     {e \in {"player", "party-1", "party-2"} :
                         /\ buffHas(g.buffManager, e, "physical-vuln")
                         /\ ~buffHas(after, e, "physical-vuln")}]

\* aoeManager.update(deltaTime, entities) and processAoEHits on what it returns
updateAoEHits(g, deltaTime, ents) ==
    LET st == updateAoEs(g.aoeManager, deltaTime, ents)
        updated == [g EXCEPT !.aoeManager =
                                [activeAoEs |-> st.activeAoEs, timers |-> st.timers],
                             !.allHits = st.allHits]
    IN processAoEHits(updated, st.allHits, HitOrder(<<>>, st.activeAoEs, ents, st.allHits))

\* chakramManager.update(deltaTime, entities) and processChakramHits
updateChakramHits(g, deltaTime, ents) ==
    LET r == chakramUpdate(g.chakramManager, deltaTime, ents)
    IN processChakramHits([g EXCEPT !.chakramManager = [activeChakrams |-> r.activeChakrams]],
                          r.allHits)

\* the observer zeroRun after an update
Counted(g, deltaTime) ==
    [g EXCEPT !.zeroRun = IF getActiveCount(g.aoeManager) = 0
                          THEN Min(g.zeroRun + deltaTime, 2 * successDelayAfterLastAoE)
                          ELSE 0]

\* Game.update(deltaTime); button is the gamepad button that went down in
\* this frame, ents is getAllPartyEntities().
gameUpdate(g, deltaTime, button, ents, roll) ==
    LET input == handleGamepadInput(g, button, roll)
        cooled == [input EXCEPT !.abilities =
                      abilityUpdate([abilities |-> input.abilities], deltaTime).abilities]
        buffed == updateBuffs(cooled, deltaTime)
        timed == timelineUpdate(buffed, deltaTime)
        hit == updateAoEHits(timed, deltaTime, ents)
        cut == updateChakramHits(hit, deltaTime, ents)
    IN Counted(successCheck(cut, deltaTime), deltaTime)

\* Mutant of staleCallback: the callback removes from the manager the Game
\* holds now.
staleCallback_Live(g, id) ==
    [g EXCEPT !.aoeManager = remove(g.aoeManager, id),
              !.staleTimers = Tail(g.staleTimers)]

\* The oldest callback of a replaced AoE manager runs: () => this.remove(id)
\* with this the manager that scheduled it.  dispose() has emptied the Map of
\* that manager, so its remove(id) finds no entry and returns; the manager
\* that restart() created is another object.
staleCallback(g, id) == [g EXCEPT !.staleTimers = Tail(g.staleTimers)]

(***************************************************************************)
(* The handlers of Game.                                                   *)
(***************************************************************************)
MaxGameElapsed == 2 * TicksPerSecond

MaxStale == Len(CruiseScript)

\* getAllPartyEntities(): the player first.  (1, 0) is inside every AoE of
\* the scripts and where the chakram ends, (1, 3) is out of reach of all.
GamePoints == {<<1, 0>>, <<1, 3>>}

PartyEntities(p, q) ==
    <<[id |-> getEntityId(playerNumber), x |-> p[1], z |-> p[2]],
      [id |-> getEntityId(CHOOSE n \in PartyNumbers : n # playerNumber),
       x |-> q[1], z |-> q[2]]>>

InstallGame(g, op, arg) ==
    /\ gameState' = g.gameState
    /\ successCheckTime' = g.successCheckTime
    /\ playerNumber' = g.playerNumber
    /\ forcedPlayerNumber' = g.forcedPlayerNumber
    /\ script' = g.script
    /\ staleTimers' = g.staleTimers
    /\ lapsed' = g.lapsed
    /\ zeroRun' = g.zeroRun
    /\ gameOp' = [op |-> op, arg |-> arg]
    /\ gameLog' = g.log
    /\ events' = g.timeline.events
    /\ currentTime' = g.timeline.currentTime
    /\ isRunning' = g.timeline.isRunning
    /\ executedEvents' = g.timeline.executedEvents
    /\ lastOp' = "game"
    /\ lastFired' = g.fired
    /\ cycle' = IF \A k \in DOMAIN g.log : g.log[k].call # "startMechanic" THEN cycle
                ELSE IF cycle = 0 THEN 1 ELSE 2
    /\ activeAoEs' = g.aoeManager.activeAoEs
    /\ timers' = g.aoeManager.timers
    /\ allHits' = g.allHits
    /\ entities' = <<>>
    /\ aoeOp' = "game"
    /\ Plain
    /\ activeChakrams' = g.chakramManager.activeChakrams
    /\ chHits' = <<>>
    /\ chEntities' = <<>>
    /\ chResolved' = <<>>
    /\ chOp' = "game"
    /\ chArg' = "none"
    /\ chDelta' = 0
    /\ chIdled' = {}
    /\ activeEffects' = g.buffManager.activeEffects
    /\ buffOp' = "game"
    /\ buffArg' = [entityId |-> "", effectId |-> ""]
    /\ buffExpired' = <<>>
    /\ abilities' = g.abilities
    /\ abOp' = "game"
    /\ abArg' = [id |-> ""]
    /\ abRet' = "void"
    /\ UNCHANGED geoVars

\* a restart leaves at most MaxStale callbacks of old managers pending
MayRestart == Len(staleTimers) + Len(timers) <= MaxStale

\* the call starts an attempt; attempts beyond the bound are not followed
StartsWithin(pressed, attempts) == (pressed /\ gameState = "waiting") => cycle < attempts

\* the time since the use of an ability is followed up to maxClock
CooldownsWithin(deltaTime, maxClock) ==
    \A i \in DOMAIN abilities :
        abilities[i].remainingCooldown > 0 =>
            abilities[i].config.cooldown - abilities[i].remainingCooldown + deltaTime <= maxClock

Frame(deltas, buttons, maxClock, attempts) ==
    \E deltaTime \in deltas, button \in buttons, p \in GamePoints, q \in GamePoints,
       roll \in PartyNumbers :
        /\ isRunning => currentTime + deltaTime <= maxClock
        /\ CooldownsWithin(deltaTime, maxClock)
        /\ StartsWithin(button = 0, attempts)
        /\ \A i \in DOMAIN activeAoEs :
              activeAoEs[i].elapsedTime + deltaTime <= MaxGameElapsed
        /\ (button = 0 /\ gameState \in {"failed", "clear"}) => MayRestart
        /\ (forcedPlayerNumber # null \/ button # 0 \/ gameState \notin {"failed", "clear"})
              => roll = 1
        /\ InstallGame(gameUpdate(GM, deltaTime, button, PartyEntities(p, q), roll),
                       "update", [deltaTime |-> deltaTime, button |-> button])

KeyDown(keys, attempts) ==
    \E key \in keys, roll \in PartyNumbers :
        /\ StartsWithin(key = "r", attempts)
        /\ (key = "r" /\ gameState \in {"failed", "clear"}) => MayRestart
        /\ (forcedPlayerNumber # null \/ key # "r" \/ gameState \notin {"failed", "clear"})
              => roll = 1
        /\ InstallGame(onKeyDown(GM, key, roll), "keydown", [key |-> key])

NumberSelect ==
    \E num \in {null} \cup {<<n>> : n \in PartyNumbers}, roll \in PartyNumbers :
        /\ MayRestart
        /\ num # null => roll = 1
        /\ InstallGame(onNumberSelect(GM, num, roll), "numberSelect", [num |-> num])

StaleTimer ==
    /\ staleTimers # <<>>
    /\ InstallGame(staleCallback(GM, Head(staleTimers)), "staleTimer",
                   [id |-> Head(staleTimers)])

\* new Game(): the constructor builds the components and registers the script
NewGame(events0) ==
    /\ events = addEvents([events |-> <<>>, currentTime |-> 0, isRunning |-> FALSE,
                           executedEvents |-> {}], events0).events
    /\ currentTime = 0
    /\ isRunning = FALSE
    /\ executedEvents = {}
    /\ lastOp = "new"
    /\ lastFired = <<>>
    /\ cycle = 0
    /\ InitAoE
    /\ InitChakram
    /\ InitBuff
    /\ InitGeo
    /\ InitAbility
    /\ gameState = "waiting"
    /\ successCheckTime = null
    /\ staleTimers = <<>>
    /\ gameOp = [op |-> "new", arg |-> [script |-> events0]]
    /\ gameLog = <<>>
    /\ zeroRun = 0
    /\ playerNumber \in PartyNumbers
    /\ forcedPlayerNumber = null
    /\ script = events0
    /\ lapsed = {}

InitTest == NewGame(TestScript)

GameDeltas == {1, 2}

MaxGameClock == Len(TestScript) + 2

\* every attempt is followed: cycle counts to 2
GameAttempts == Len(TestScript)

GameUpdate == Frame(GameDeltas, {0, 3}, MaxGameClock, GameAttempts)

GameKeyDown == KeyDown({"r"}, GameAttempts)

NextGame ==
    \/ GameUpdate
    \/ GameKeyDown
    \/ NumberSelect
    \/ RemoveTimer
    \/ StaleTimer

\* The Game under the test script: the outcome of attempts and restarts.
SpecGame == InitTest /\ [][NextGame]_vars

InitCruise == NewGame(CruiseScript)

\* a frame of one second, and one of 17 s, the duration of physical-vuln
CruiseDeltas == {TicksPerSecond, PHYSICAL_VULN.duration}

MaxCruiseClock == CruiseScript[2].time + PHYSICAL_VULN.duration + TicksPerSecond

\* an attempt for each dash is followed
CruiseAttempts == Len(CruiseScript)

CruiseUpdate == Frame(CruiseDeltas, {3}, MaxCruiseClock, CruiseAttempts)

CruiseKeyDown == KeyDown({"r", "1"}, CruiseAttempts)

NextCruise ==
    \/ CruiseUpdate
    \/ CruiseKeyDown
    \/ RemoveTimer
    \/ StaleTimer

\* The Game under the script of the two dashes: the Cruise Chaser hit rules.
SpecCruise == InitCruise /\ [][NextCruise]_vars

(***************************************************************************)
(* JavaScript numbers in the collision tests (src/src/AoEManager.ts).      *)
(*                                                                         *)
(* A number is an IEEE 754 binary64 value, here the record                 *)
(* [sign, mant, exp] standing for sign * mant * 2^exp, with mant either 0  *)
(* or a natural number of exactly 53 bits.  Naturals of that size are      *)
(* sequences of limbs in base 2^15, least significant first, without       *)
(* leading zero limbs; <<>> is 0.  Sums, differences and products are      *)
(* computed exactly and then rounded to the nearest number, ties to even,  *)
(* as the operators +, - and * of the language do.  The two zeros are not  *)
(* told apart, and the numbers of the model stay clear of infinities, NaN  *)
(* and subnormals.                                                         *)
(***************************************************************************)
RECURSIVE Bits(_)
Bits(k) == IF k = 0 THEN 0 ELSE 1 + Bits(k \div 2)

Base == 2 ^ 15

LimbBits == Bits(Base) - 1

\* the bits of the significand of a binary64 number
MantBits == 53

Limb(a, i) == IF i <= Len(a) THEN a[i] ELSE 0

RECURSIVE Trim(_)
Trim(a) ==
    IF a = <<>> THEN <<>>
    ELSE IF a[Len(a)] = 0 THEN Trim(SubSeq(a, 1, Len(a) - 1))
    ELSE a

RECURSIVE AddCarry(_, _, _)
AddCarry(a, b, carry) ==
    IF a = <<>> /\ b = <<>> THEN (IF carry = 0 THEN <<>> ELSE <<carry>>)
    ELSE LET sum == Limb(a, 1) + Limb(b, 1) + carry
         IN <<sum % Base>> \o
            AddCarry(IF a = <<>> THEN <<>> ELSE Tail(a),
                     IF b = <<>> THEN <<>> ELSE Tail(b), sum \div Base)

NatAdd(a, b) == AddCarry(a, b, 0)

RECURSIVE SubBorrow(_, _, _)
SubBorrow(a, b, borrow) ==
    IF a = <<>> THEN <<>>
    ELSE LET diff == a[1] - Limb(b, 1) - borrow
         IN <<diff % Base>> \o
            SubBorrow(Tail(a), IF b = <<>> THEN <<>> ELSE Tail(b),
                      IF diff < 0 THEN 1 ELSE 0)

\* a - b, for a >= b
NatSub(a, b) == Trim(SubBorrow(a, b, 0))

RECURSIVE CmpFrom(_, _, _)
CmpFrom(a, b, i) ==
    IF i = 0 THEN 0
    ELSE IF a[i] < b[i] THEN -1
    ELSE IF a[i] > b[i] THEN 1
    ELSE CmpFrom(a, b, i - 1)

\* -1, 0 or 1 as a < b, a = b or a > b
NatCmp(a, b) ==
    IF Len(a) < Len(b) THEN -1
    ELSE IF Len(a) > Len(b) THEN 1
    ELSE CmpFrom(a, b, Len(a))

RECURSIVE MulLimb(_, _, _)
MulLimb(a, k, carry) ==
    IF a = <<>> THEN (IF carry = 0 THEN <<>> ELSE <<carry>>)
    ELSE LET prod == a[1] * k + carry
         IN <<prod % Base>> \o MulLimb(Tail(a), k, prod \div Base)

ShiftLimb(a) == IF a = <<>> THEN <<>> ELSE <<0>> \o a

RECURSIVE NatMul(_, _)
NatMul(a, b) ==
    IF a = <<>> \/ b = <<>> THEN <<>>
    ELSE NatAdd(MulLimb(a, b[1], 0), ShiftLimb(NatMul(a, Tail(b))))

RECURSIVE ShiftLimbs(_, _)
ShiftLimbs(a, n) == IF n = 0 THEN a ELSE ShiftLimbs(ShiftLimb(a), n - 1)

\* a * 2^n
NatShl(a, n) == ShiftLimbs(MulLimb(a, 2 ^ (n % LimbBits), 0), n \div LimbBits)

\* a \div 2^n
NatShr(a, n) ==
    LET drop == n \div LimbBits
        low == 2 ^ (n % LimbBits)
        rest == IF drop >= Len(a) THEN <<>> ELSE SubSeq(a, drop + 1, Len(a))
    IN Trim([i \in DOMAIN rest |->
                (rest[i] \div low) + (Limb(rest, i + 1) % low) * (Base \div low)])

\* a % 2^n
NatLow(a, n) ==
    LET keep == n \div LimbBits
        low == 2 ^ (n % LimbBits)
    IN IF keep >= Len(a) THEN a
       ELSE Trim(SubSeq(a, 1, keep) \o <<a[keep + 1] % low>>)

BitLen(a) == IF a = <<>> THEN 0 ELSE LimbBits * (Len(a) - 1) + Bits(a[Len(a)])

NatOdd(a) == a # <<>> /\ a[1] % 2 = 1

Zero == [sign |-> 1, mant |-> <<>>, exp |-> 0]

\* the number nearest to sign * m * 2^e, ties to even
RoundNearest(sign, m, e) ==
    LET len == BitLen(m) IN
    IF m = <<>> THEN Zero
    ELSE IF len <= MantBits
    THEN [sign |-> sign, mant |-> NatShl(m, MantBits - len), exp |-> e - (MantBits - len)]
    ELSE LET n == len - MantBits
             q == NatShr(m, n)
             r == NatLow(m, n)
             half == NatShl(<<1>>, n - 1)
             up == NatCmp(r, half) = 1 \/ (NatCmp(r, half) = 0 /\ NatOdd(q))
             q1 == IF up THEN NatAdd(q, <<1>>) ELSE q
         IN IF BitLen(q1) > MantBits
            THEN [sign |-> sign, mant |-> NatShr(q1, 1), exp |-> e + n + 1]
            ELSE [sign |-> sign, mant |-> q1, exp |-> e + n]

\* a whole number of magnitude below 2^15
FromInt(n) == RoundNearest(IF n < 0 THEN -1 ELSE 1, Trim(<<IF n < 0 THEN -n ELSE n>>), 0)

FNeg(x) == IF x.mant = <<>> THEN x ELSE [x EXCEPT !.sign = -x.sign]

\* Math.abs
FAbs(x) == [x EXCEPT !.sign = 1]

\* x + y
FAdd(x, y) ==
    IF x.mant = <<>> THEN y
    ELSE IF y.mant = <<>> THEN x
    ELSE LET e == IF x.exp <= y.exp THEN x.exp ELSE y.exp
             mx == NatShl(x.mant, x.exp - e)
             my == NatShl(y.mant, y.exp - e)
         IN IF x.sign = y.sign THEN RoundNearest(x.sign, NatAdd(mx, my), e)
            ELSE IF NatCmp(mx, my) >= 0 THEN RoundNearest(x.sign, NatSub(mx, my), e)
            ELSE RoundNearest(y.sign, NatSub(my, mx), e)

\* x - y
FSub(x, y) == FAdd(x, FNeg(y))

\* x * y
FMul(x, y) == RoundNearest(x.sign * y.sign, NatMul(x.mant, y.mant), x.exp + y.exp)

\* x / 2
FHalf(x) == IF x.mant = <<>> THEN x ELSE [x EXCEPT !.exp = @ - 1]

\* x <= y
FLeq(x, y) ==
    IF x.mant = <<>> THEN y.mant = <<>> \/ y.sign = 1
    ELSE IF y.mant = <<>> THEN x.sign = -1
    ELSE IF x.sign # y.sign THEN x.sign = -1
    ELSE LET e == IF x.exp <= y.exp THEN x.exp ELSE y.exp
             c == NatCmp(NatShl(x.mant, x.exp - e), NatShl(y.mant, y.exp - e))
         IN IF x.sign = 1 THEN c <= 0 ELSE c >= 0

\* x > y
FGt(x, y) == ~FLeq(x, y)

\* x < y
FLt(x, y) == FGt(y, x)

\* Math.PI = 3.141592653589793
MathPI == [sign |-> 1, mant |-> <<11544, 10376, 2029, 201>>, exp |-> -51]

\* 2 * Math.PI
TwoPI == FMul(FromInt(2), MathPI)

\* Math.PI / 2
HalfPI == FHalf(MathPI)

\* Math.cos at 0 and at the quarter turns -PI/2, -PI and -3*PI/2:
\* 1, 6.123233995736766e-17, -1 and -1.8369701987210297e-16
MathCos(x) ==
    CASE x = Zero -> FromInt(1)
      [] x = FNeg(HalfPI) ->
            [sign |-> 1, mant |-> <<23559, 26152, 6296, 141>>, exp |-> -106]
      [] x = FNeg(MathPI) -> FromInt(-1)
      [] x = FNeg(FAdd(MathPI, HalfPI)) ->
            [sign |-> -1, mant |-> <<2570, 6461, 25829, 211>>, exp |-> -105]

\* Math.sin at the same arguments: 0, -1, -1.2246467991473532e-16 and 1
MathSin(x) ==
    CASE x = Zero -> Zero
      [] x = FNeg(HalfPI) -> FromInt(-1)
      [] x = FNeg(MathPI) ->
            [sign |-> -1, mant |-> <<23559, 26152, 6296, 141>>, exp |-> -105]
      [] x = FNeg(FAdd(MathPI, HalfPI)) -> FromInt(1)

\* the number k / 2
Half(k) == FHalf(FromInt(k))

\* The nearest number to atan2(dx, dz) for (dx, dz) = (i / 2, j / 2):
\* 0, PI/4, PI/2, PI, -PI/2, 0.4636476090008061, 1.1071487177940904,
\* -1.373400766945016 and -2.0344439357957027
Atan2Table ==
    [p \in {<<0, 0>>, <<0, 2>>, <<2, 2>>, <<2, 0>>, <<0, -2>>, <<-2, 0>>,
            <<1, 2>>, <<2, 1>>, <<-5, 1>>, <<-2, -1>>} |->
        CASE p \in {<<0, 0>>, <<0, 2>>} -> Zero
          [] p = <<2, 2>> -> FHalf(HalfPI)
          [] p = <<2, 0>> -> HalfPI
          [] p = <<0, -2>> -> MathPI
          [] p = <<-2, 0>> -> FNeg(HalfPI)
          [] p = <<1, 2>> -> [sign |-> 1, mant |-> <<15183, 2755, 12700, 237>>, exp |-> -54]
          [] p = <<2, 1>> -> [sign |-> 1, mant |-> <<15940, 9687, 23430, 141>>, exp |-> -52]
          [] p = <<-5, 1>> -> [sign |-> -1, mant |-> <<18519, 10826, 26060, 175>>, exp |-> -52]
          [] p = <<-2, -1>> -> [sign |-> -1, mant |-> <<19958, 5532, 6698, 130>>, exp |-> -51]]

\* Math.atan2 returns an implementation-approximated value: a build may be
\* off from the nearest number by a unit in the last place.
Slacks == {-1, 0, 1}

\* x moved k units in the last place away from 0
Nudge(x, k) ==
    IF x.mant = <<>> \/ k = 0 THEN x
    ELSE IF k > 0 THEN [x EXCEPT !.mant = NatAdd(@, <<k>>)]
    ELSE [x EXCEPT !.mant = NatSub(@, <<-k>>)]

\* Math.atan2(dx, dz) in the build whose results are off by slack
MathAtan2(dx, dz, slack) ==
    LET p == CHOOSE p \in DOMAIN Atan2Table : dx = Half(p[1]) /\ dz = Half(p[2])
    IN Nudge(Atan2Table[p], slack)

\* Mutant of InCircle: the boundary is outside.
InCircle_Strict(config, playerPosition) ==
    LET dx == FSub(playerPosition.x, config.position.x)
        dz == FSub(playerPosition.z, config.position.z)
        distanceSquared == FAdd(FMul(dx, dx), FMul(dz, dz))
    IN FLt(distanceSquared, FMul(config.radius, config.radius))

\* case 'circle'
InCircle(config, playerPosition) ==
    LET dx == FSub(playerPosition.x, config.position.x)
        dz == FSub(playerPosition.z, config.position.z)
        distanceSquared == FAdd(FMul(dx, dx), FMul(dz, dz))
    IN FLeq(distanceSquared, FMul(config.radius, config.radius))

\* config.rotation ?? 0
RotationOf(config) == IF "rotation" \in DOMAIN config THEN config.rotation ELSE Zero

\* the player position in the local space of the AoE
LocalX(config, dx, dz) ==
    FSub(FMul(dx, MathCos(FNeg(RotationOf(config)))),
         FMul(dz, MathSin(FNeg(RotationOf(config)))))

LocalZ(config, dx, dz) ==
    FAdd(FMul(dx, MathSin(FNeg(RotationOf(config)))),
         FMul(dz, MathCos(FNeg(RotationOf(config)))))

\* case 'line'
InLine(config, playerPosition) ==
    LET dx == FSub(playerPosition.x, config.position.x)
        dz == FSub(playerPosition.z, config.position.z)
        localX == LocalX(config, dx, dz)
        localZ == LocalZ(config, dx, dz)
    IN /\ FLeq(FAbs(localX), FHalf(config.width))
       /\ FLeq(FAbs(localZ), FHalf(config.length))

\* while (angleDiff > Math.PI) angleDiff -= 2 * Math.PI
RECURSIVE WhileAbove(_)
WhileAbove(angleDiff) ==
    IF FGt(angleDiff, MathPI) THEN WhileAbove(FSub(angleDiff, TwoPI)) ELSE angleDiff

\* while (angleDiff < -Math.PI) angleDiff += 2 * Math.PI
RECURSIVE WhileBelow(_)
WhileBelow(angleDiff) ==
    IF FLt(angleDiff, FNeg(MathPI)) THEN WhileBelow(FAdd(angleDiff, TwoPI)) ELSE angleDiff

\* the angular difference as the two loops leave it
AngleDiff(playerAngle, coneRotation) ==
    WhileBelow(WhileAbove(FSub(playerAngle, coneRotation)))

\* case 'cone'
InCone(config, playerPosition, slack) ==
    LET dx == FSub(playerPosition.x, config.position.x)
        dz == FSub(playerPosition.z, config.position.z)
        distanceSquared == FAdd(FMul(dx, dx), FMul(dz, dz))
    IN IF FGt(distanceSquared, FMul(config.radius, config.radius)) THEN FALSE
       ELSE FLeq(FAbs(AngleDiff(MathAtan2(dx, dz, slack), RotationOf(config))),
                 FHalf(config.angle))

\* Mutant of InPlus: each arm reaches armLength / 2 from the center.
InPlus_Half(config, playerPosition) ==
    LET dx == FSub(playerPosition.x, config.position.x)
        dz == FSub(playerPosition.z, config.position.z)
        localX == LocalX(config, dx, dz)
        localZ == LocalZ(config, dx, dz)
        armLength == IF "armLength" \in DOMAIN config THEN config.armLength ELSE FromInt(10)
        armWidth == IF "armWidth" \in DOMAIN config THEN config.armWidth ELSE FromInt(2)
        halfWidth == FHalf(armWidth)
    IN \/ FLeq(FAbs(localX), halfWidth) /\ FLeq(FAbs(localZ), FHalf(armLength))
       \/ FLeq(FAbs(localZ), halfWidth) /\ FLeq(FAbs(localX), FHalf(armLength))

\* case 'plus'
InPlus(config, playerPosition) ==
    LET dx == FSub(playerPosition.x, config.position.x)
        dz == FSub(playerPosition.z, config.position.z)
        localX == LocalX(config, dx, dz)
        localZ == LocalZ(config, dx, dz)
        armLength == IF "armLength" \in DOMAIN config THEN config.armLength ELSE FromInt(10)
        armWidth == IF "armWidth" \in DOMAIN config THEN config.armWidth ELSE FromInt(2)
        halfWidth == FHalf(armWidth)
        inVerticalArm == FLeq(FAbs(localX), halfWidth) /\ FLeq(FAbs(localZ), armLength)
        inHorizontalArm == FLeq(FAbs(localZ), halfWidth) /\ FLeq(FAbs(localX), armLength)
    IN inVerticalArm \/ inHorizontalArm

\* checkCollision on JavaScript numbers, for the shapes of GeoConfigs
checkCollisionNumbers(config, playerPosition, slack) ==
    CASE config.shape = "circle" -> InCircle(config, playerPosition)
      [] config.shape = "line" -> InLine(config, playerPosition)
      [] config.shape = "cone" -> InCone(config, playerPosition, slack)
      [] config.shape = "plus" -> InPlus(config, playerPosition)
      [] OTHER -> FALSE

(***************************************************************************)
(* The collision queries of the model.  Positions and sizes are halves of  *)
(* whole numbers, so that every difference, square and sum of squares is   *)
(* exact; the cone angles include the doubles of the angles at which the   *)
(* query points lie, which puts those points on the edge of the cone.      *)
(***************************************************************************)
MaxGrid == 5

Grid == (-MaxGrid) .. MaxGrid

Position(i, j) == [x |-> Half(i), z |-> Half(j)]

GridPoints == {<<i, j>> : i \in Grid, j \in Grid}

GeoCircle(c, r) == [shape |-> "circle", position |-> Position(c[1], c[2]), radius |-> Half(r)]

GeoLine(w, l) ==
    [shape |-> "line", position |-> Position(0, 0), width |-> Half(w), length |-> Half(l),
     rotation |-> Zero]

GeoCone(r, angle) ==
    [shape |-> "cone", position |-> Position(0, 0), radius |-> Half(r), angle |-> angle,
     rotation |-> Zero]

GeoPlus(l, w) ==
    [shape |-> "plus", position |-> Position(0, 0), armLength |-> Half(l), armWidth |-> Half(w)]

\* a plus that leaves armWidth to its default of 2
GeoPlusDefault(l) == [shape |-> "plus", position |-> Position(0, 0), armLength |-> Half(l)]

CircleCenters == {<<0, 0>>, <<1, -1>>}

CircleRadii == {2, 5}

LineWidths == {2, 4}

LineLengths == {4, 8}

ConeRadii == {2, 6}

EdgePoints == {<<1, 2>>, <<2, 1>>, <<-5, 1>>}

ConeAngles ==
    {HalfPI, MathPI} \cup
    {FMul(FromInt(2), FAbs(Nudge(Atan2Table[p], k))) : p \in EdgePoints, k \in Slacks}

PlusLengths == {2, 4}

PlusWidths == {2}

GeoConfigs ==
    {GeoCircle(c, r) : c \in CircleCenters, r \in CircleRadii} \cup
    {GeoLine(w, l) : w \in LineWidths, l \in LineLengths} \cup
    {GeoCone(r, a) : r \in ConeRadii, a \in ConeAngles} \cup
    {GeoPlus(l, w) : l \in PlusLengths, w \in PlusWidths} \cup
    {GeoPlusDefault(l) : l \in PlusLengths}

\* a query: a config, a player position and, for a cone, the build's atan2
InitGeoQuery ==
    /\ geoConfig \in GeoConfigs
    /\ geoPoint \in IF geoConfig.shape = "cone" THEN DOMAIN Atan2Table ELSE GridPoints
    /\ geoSlack \in IF geoConfig.shape = "cone" THEN Slacks ELSE {0}
    /\ geoInside = "none"
    /\ geoBefore = "none"

\* checkCollision(config, playerPosition) is called on the query
CheckCollision ==
    /\ geoInside = "none"
    /\ geoInside' =
          IF checkCollisionNumbers(geoConfig, Position(geoPoint[1], geoPoint[2]), geoSlack)
          THEN "inside" ELSE "outside"
    /\ UNCHANGED <<geoConfig, geoPoint, geoSlack, geoBefore>>
    /\ UNCHANGED <<tlVars, aoeVars, chVars, buffVars, abVars, gameVars>>

\* the cone is given one more full turn: rotation 2 * Math.PI in place of 0
FullTurn ==
    /\ geoConfig.shape = "cone"
    /\ geoConfig.rotation = Zero
    /\ geoInside # "none"
    /\ geoConfig' = [geoConfig EXCEPT !.rotation = TwoPI]
    /\ geoBefore' = geoInside
    /\ geoInside' = "none"
    /\ UNCHANGED <<geoPoint, geoSlack>>
    /\ UNCHANGED <<tlVars, aoeVars, chVars, buffVars, abVars, gameVars>>

\* the line and the player are turned about the center of the line by a
\* quarter turn: rotation + Math.PI / 2, and (dx, dz) to (-dz, dx)
QuarterTurn ==
    /\ geoConfig.shape = "line"
    /\ FLt(geoConfig.rotation, FAdd(MathPI, HalfPI))
    /\ geoInside # "none"
    /\ geoConfig' = [geoConfig EXCEPT !.rotation = FAdd(@, HalfPI)]
    /\ geoPoint' = <<-geoPoint[2], geoPoint[1]>>
    /\ geoBefore' = geoInside
    /\ geoInside' = "none"
    /\ UNCHANGED geoSlack
    /\ UNCHANGED <<tlVars, aoeVars, chVars, buffVars, abVars, gameVars>>

NextGeo ==
    \/ CheckCollision
    \/ FullTurn
    \/ QuarterTurn

InitQuery ==
    /\ InitTimeline /\ InitAoE /\ InitChakram /\ InitBuff /\ InitGeoQuery
    /\ InitAbility /\ InitGame

SpecGeo == InitQuery /\ [][NextGeo]_vars

(***************************************************************************)
(* The two managers side by side.  They share no state, so a behaviour     *)
(* that drives one of them from its construction on shows everything the   *)
(* other could not change: a manager is driven while the other is as       *)
(* constructed.                                                            *)
(***************************************************************************)
AoEIdle == aoeOp = "new"

ChakramIdle == chOp = "new"

NextManagers ==
    \/ ChakramIdle /\ Spawn
    \/ ChakramIdle /\ AoEUpdate
    \/ ChakramIdle /\ Remove
    \/ ChakramIdle /\ Clear
    \/ ChakramIdle /\ Dispose
    \/ ChakramIdle /\ CheckPuddleSoak
    \/ ChakramIdle /\ RespawnPuddle
    \/ ChakramIdle /\ RemoveTimer
    \/ AoEIdle /\ ChakramSpawn
    \/ AoEIdle /\ SpawnStationary
    \/ AoEIdle /\ StartMovement
    \/ AoEIdle /\ ChakramUpdate
    \/ AoEIdle /\ ChakramRemove
    \/ AoEIdle /\ ChakramClear
    \/ AoEIdle /\ ChakramDispose

SpecManagers == Init /\ [][NextManagers]_vars

(***************************************************************************)
(* Properties of the Timeline.                                             *)
(***************************************************************************)
Due(i) == events[i].time <= currentTime

\* No other registered event has the id of events[i].
UniqueId(i) == \A j \in DOMAIN events : j # i => events[j].id # events[i].id

Ascending(log) == \A k \in 1 .. (Len(log) - 1) : log[k].time <= log[k + 1].time

\* C1 as stated: after an update call on a running timeline, every registered
\* event whose time <= the clock has had its handler invoked exactly once in
\* this cycle.
C1_Original ==
    lastOp = "update" => \A i \in DOMAIN events : Due(i) => events[i].fired = 1

\* C1 amended: no handler is invoked twice in a cycle, and after an update call
\* on a running timeline every registered event whose time <= the clock and
\* whose id no other registered event has, has had its handler invoked exactly
\* once in this cycle, however many event times the call crossed.
C1_ExactlyOnce ==
    /\ \A i \in DOMAIN events : events[i].fired <= 1
    /\ lastOp = "update" =>
          \A i \in DOMAIN events : (Due(i) /\ UniqueId(i)) => events[i].fired = 1

\* One update call crossed the times of two events and invoked both.
C1_Witness ==
    /\ lastOp = "update"
    /\ Len(events) = 2
    /\ Len(lastFired) = 2
    /\ lastFired[1].time # lastFired[2].time
    /\ \A i \in DOMAIN events : events[i].fired = 1

\* C2 as stated: in every update call the handlers are invoked in ascending
\* order of event time, also for events registered after start().
C2_Original == Ascending(lastFired)

\* C2 amended: in every update call made while every registered event was
\* registered before the last start(), the handlers are invoked in ascending
\* order of event time, whatever the registration order was.
C2_AscendingWhenSorted ==
    (\A i \in DOMAIN events : events[i].reg = "pre") => Ascending(lastFired)

\* One update call invoked two events of different times, both sorted by start().
C2_Witness ==
    /\ lastOp = "update"
    /\ Len(lastFired) = 2
    /\ lastFired[1].time < lastFired[2].time
    /\ \A i \in DOMAIN events : events[i].reg = "pre"

\* C3 as stated: once stop() has been called no handler is invoked until the
\* next start(), also when a handler calls stop() during an update call in
\* which further events are due: every invocation of an update call is made
\* while the timeline is running.
C3_Original == \A k \in DOMAIN lastFired : lastFired[k].running

\* C4: an update call on a timeline that is not running changes nothing: the
\* clock, the events and their fired marks, the fired set and the running flag
\* stay as they were, and no handler is invoked.
C4_StoppedUpdateNoOp ==
    [][lastOp' = "updateStopped" =>
          /\ currentTime' = currentTime
          /\ events' = events
          /\ executedEvents' = executedEvents
          /\ isRunning' = isRunning
          /\ lastFired' = <<>>]_vars

\* update was called after stop(), with the clock past 0 and a due event that
\* has not fired, and it stays unfired.
C4_Witness ==
    /\ lastOp = "updateStopped"
    /\ cycle >= 1
    /\ currentTime > 0
    /\ \E i \in DOMAIN events : Due(i) /\ events[i].fired = 0

\* C5 as stated: in a second or later cycle every registered event whose time
\* the clock has reached has fired exactly once, whatever fired before.
C5_Original ==
    (lastOp = "update" /\ cycle >= 2) =>
        \A i \in DOMAIN events : Due(i) => events[i].fired = 1

\* The registered events, without the observer fields.
Registered(s) ==
    [i \in DOMAIN s |-> [time |-> s[i].time, id |-> s[i].id, handler |-> s[i].handler]]

SameEvents(s, t) ==
    /\ Len(s) = Len(t)
    /\ \A e \in {Registered(s)[i] : i \in DOMAIN s} :
          Cardinality({i \in DOMAIN s : Registered(s)[i] = e}) =
          Cardinality({i \in DOMAIN t : Registered(t)[i] = e})

C5_StartResetState ==
    /\ lastOp = "start" =>
          currentTime = 0 /\ isRunning /\ executedEvents = {}
    /\ lastOp = "reset" =>
          currentTime = 0 /\ ~isRunning /\ executedEvents = {}
    /\ (lastOp = "update" /\ cycle >= 2) =>
          \A i \in DOMAIN events :
              /\ events[i].fired <= 1
              /\ (Due(i) /\ UniqueId(i)) => events[i].fired = 1

\* C5 amended: start() sets the clock to 0 and forgets which ids fired, reset()
\* gives clock 0, not running, nothing marked fired; start(), stop() and reset()
\* keep the registered events; and in a second or later cycle every registered
\* event whose id no other registered event has fires exactly once when the
\* clock reaches its time, whatever fired in the cycle before.
C5_Cycles ==
    /\ []C5_StartResetState
    /\ [][lastOp' \in {"start", "stop", "reset"} => SameEvents(events, events')]_vars

\* A second cycle, begun after a cycle in which events fired, has fired its
\* two events again.
C5_Witness ==
    /\ cycle = 2
    /\ lastOp = "update"
    /\ Len(events) = 2
    /\ \A i \in DOMAIN events : events[i].fired = 1

\* C6 as stated: of two registered events with the same id, each fires once per
\* cycle when the clock reaches its time.
C6_Original ==
    lastOp = "update" =>
        \A i \in DOMAIN events : \A j \in DOMAIN events :
            (i # j /\ events[i].id = events[j].id /\ Due(i) /\ Due(j)) =>
                (events[i].fired = 1 /\ events[j].fired = 1)

C6_OnePerId ==
    lastOp = "update" =>
        \A i \in DOMAIN events :
            Due(i) =>
                /\ Cardinality({j \in DOMAIN events :
                       events[j].id = events[i].id /\ events[j].fired = 1}) = 1
                /\ \A j \in DOMAIN events :
                       events[j].id = events[i].id => events[j].fired <= 1

\* C6 amended: addEvent never rejects or replaces an event (the array grows by
\* the new event and keeps the others), but firing is marked by id: of the
\* registered events that share an id, exactly one has its handler invoked in
\* a cycle once one of them is due, and the others are not invoked.
C6_RetainedOnePerId ==
    /\ []C6_OnePerId
    /\ [][lastOp' = "addEvent" =>
            /\ Len(events') = Len(events) + 1
            /\ SubSeq(events', 1, Len(events)) = events]_vars

\* Two events with the same id are registered and due; one has fired, the
\* other has not.
C6_Witness ==
    /\ lastOp = "update"
    /\ Len(events) = 2
    /\ events[1].id = events[2].id
    /\ Due(1) /\ Due(2)
    /\ events[1].fired + events[2].fired = 1

\* C7 as stated: an event registered on a running timeline with time <= the
\* clock has fired exactly once after the next update call.
C7_Original ==
    lastOp = "update" =>
        \A i \in DOMAIN events : events[i].reg = "late" => events[i].fired = 1

\* C7 amended: an event registered on a running timeline with time <= the
\* clock, whose id no other registered event has, has fired exactly once after
\* the next update call on the running timeline.
C7_PastDueFires ==
    lastOp = "update" =>
        \A i \in DOMAIN events :
            (events[i].reg = "late" /\ UniqueId(i)) => events[i].fired = 1

\* An event registered with a time before the running clock has fired.
C7_Witness ==
    /\ lastOp = "update"
    /\ \E i \in DOMAIN events :
          /\ events[i].reg = "late"
          /\ events[i].time < currentTime
          /\ events[i].fired = 1
          /\ \E k \in DOMAIN lastFired : lastFired[k].id = events[i].id

Hit(entityId, aoeId) ==
    /\ entityId \in DOMAIN allHits
    /\ \E k \in DOMAIN allHits[entityId] : allHits[entityId][k] = aoeId

InHitMap(aoeId) == \E e \in DOMAIN allHits : Hit(e, aoeId)

NonPuddle(aoe) == aoe.config.shape # "puddle"

\* C9: a non-puddle AoE is unresolved, has not had onResolve called and is in no
\* hit list of an update in which its elapsed time is below telegraphDuration;
\* after an update in which its elapsed time has reached telegraphDuration it is
\* resolved; onResolve is called exactly once, when it resolves, and never
\* again; and only the update in which it resolves puts it in a hit list.
C9_ResolvesOnce ==
    \A i \in DOMAIN activeAoEs :
        LET aoe == activeAoEs[i] IN
        NonPuddle(aoe) =>
            /\ aoe.resolveCalls <= 1
            /\ aoe.resolved <=> aoe.resolveCalls = 1
            /\ aoe.elapsedTime < aoe.config.telegraphDuration => ~aoe.resolved
            /\ aoe.justResolved => aoe.resolved
            /\ aoeOp = "update" =>
                 /\ aoe.elapsedTime >= aoe.config.telegraphDuration => aoe.resolved
                 /\ InHitMap(aoe.config.id) => aoe.justResolved

\* A resolved AoE went through a later update with an entity inside it: it did
\* not resolve again, onResolve was not called again and it is in no hit list.
C9_Witness ==
    /\ aoeOp = "update"
    /\ \E i \in DOMAIN activeAoEs :
          LET aoe == activeAoEs[i] IN
          /\ aoe.config.shape = "circle"
          /\ aoe.resolved
          /\ ~aoe.justResolved
          /\ aoe.resolveCalls = 1
          /\ aoe.elapsedTime > aoe.config.telegraphDuration
          /\ ~InHitMap(aoe.config.id)
          /\ \E k \in DOMAIN entities : entities[k].x = 1 /\ entities[k].z = 0

\* The point lies inside the shape of the AoE (edges included).
LiesInside(config, pos) ==
    LET dx == pos.x - config.x
        dz == pos.z - config.z
    IN CASE config.shape = "circle" -> dx * dx + dz * dz <= config.radius * config.radius
         [] config.shape = "line" -> 2 * Abs(dx) <= config.width /\ 2 * Abs(dz) <= config.length
         [] config.shape = "puddle" ->
              dx * dx + dz * dz <= config.soakRadius * config.soakRadius

\* C10 as stated: in the update call in which an AoE (of any shape) resolves,
\* the returned map holds its id under entity e exactly if e's position lies
\* inside its shape.
C10_Original ==
    aoeOp = "update" =>
        \A i \in DOMAIN activeAoEs :
            activeAoEs[i].justResolved =>
                \A k \in DOMAIN entities :
                    Hit(entities[k].id, activeAoEs[i].config.id)
                        <=> LiesInside(activeAoEs[i].config, entities[k])

\* C10 amended: in the update call in which a non-puddle AoE resolves, the
\* returned map holds its id under entity e exactly if e's position lies inside
\* its shape; the map holds nothing else (no empty list, no id of an AoE that
\* did not resolve in this call, no id of a puddle, no id twice), so an AoE may
\* hit zero, one or many entities and several AoEs resolving together are each
\* on the list of every entity they contain.
C10_HitMap ==
    aoeOp = "update" =>
        /\ \A i \in DOMAIN activeAoEs :
              (activeAoEs[i].justResolved /\ NonPuddle(activeAoEs[i])) =>
                  \A k \in DOMAIN entities :
                      Hit(entities[k].id, activeAoEs[i].config.id)
                          <=> LiesInside(activeAoEs[i].config, entities[k])
        /\ \A e \in DOMAIN allHits :
              /\ allHits[e] # <<>>
              /\ \E k \in DOMAIN entities : entities[k].id = e
              /\ \A m \in DOMAIN allHits[e] :
                    /\ \E i \in DOMAIN activeAoEs :
                          /\ activeAoEs[i].config.id = allHits[e][m]
                          /\ activeAoEs[i].justResolved
                          /\ NonPuddle(activeAoEs[i])
                    /\ \A n \in DOMAIN allHits[e] : allHits[e][n] = allHits[e][m] => n = m

\* Two AoEs resolved in one update call: one entity is on the edge of both and
\* has both on its list, the other is outside both and is absent from the map.
C10_Witness ==
    /\ aoeOp = "update"
    /\ Len(activeAoEs) = 2
    /\ \A i \in DOMAIN activeAoEs : activeAoEs[i].justResolved /\ NonPuddle(activeAoEs[i])
    /\ activeAoEs[1].config.shape # activeAoEs[2].config.shape
    /\ "party-1" \in DOMAIN allHits
    /\ Len(allHits["party-1"]) = 2
    /\ "party-2" \notin DOMAIN allHits

\* the ids of the live instances, in Map order
LiveIds(aoes) == [i \in DOMAIN aoes |-> aoes[i].config.id]

Pending(id) == \E k \in DOMAIN timers : timers[k] = id

\* every resolved live instance has its removal callback pending
C11_RemovalPending ==
    \A i \in DOMAIN activeAoEs :
        activeAoEs[i].resolved => Pending(activeAoEs[i].config.id)

\* update removes nothing, and calls onResolve and reports hits for no
\* instance that had resolved before the call
C11_UpdateKeeps ==
    aoeOp' = "update" =>
        /\ LiveIds(activeAoEs') = LiveIds(activeAoEs)
        /\ \A i \in DOMAIN activeAoEs :
              activeAoEs[i].resolved =>
                  /\ activeAoEs'[i].resolveCalls = activeAoEs[i].resolveCalls
                  /\ \A e \in DOMAIN allHits' :
                        \A k \in DOMAIN allHits'[e] :
                            allHits'[e][k] # activeAoEs[i].config.id

\* the callback runs once, removes the instance of its id and touches nothing else
C11_CallbackRemoves ==
    aoeOp' = "timer" =>
        /\ timers # <<>>
        /\ timers' = Tail(timers)
        /\ ~has(activeAoEs', Head(timers))
        /\ activeAoEs' = Without(activeAoEs, Head(timers))
        /\ allHits' = <<>>

\* a spawn of the id of a resolved live instance is refused
C11_SpawnRefused ==
    (aoeOp' = "spawn" /\ has(activeAoEs, aoeArg'.id)
        /\ get(activeAoEs, aoeArg'.id).resolved) =>
            activeAoEs' = activeAoEs /\ timers' = timers

\* C11: an AoE that resolves in an update call is still live when the call
\* returns, with its removal callback pending; a spawn of its id is refused;
\* the callback removes it without a call from the owner; and neither the
\* callback nor an update in between calls onResolve or reports hits for it.
C11_DeferredRemoval ==
    /\ []C11_RemovalPending
    /\ [][C11_UpdateKeeps /\ C11_CallbackRemoves /\ C11_SpawnRefused]_vars

\* an update in which an AoE resolved with an entity inside has returned, the
\* AoE is live and its callback is pending
C11_Witness ==
    /\ aoeOp = "update"
    /\ \E i \in DOMAIN activeAoEs :
          /\ activeAoEs[i].justResolved
          /\ InHitMap(activeAoEs[i].config.id)
          /\ Pending(activeAoEs[i].config.id)
          /\ getActiveCount(AM) = 2

\* C12: an instance spawned under a reused id lives by its own configuration
\* and the calls made after its spawn: the removal callback of an earlier
\* instance of the id never removes it.  A callback is scheduled only when an
\* instance resolves, so a callback that removes an unresolved instance was
\* scheduled for an earlier one.
C12_Original ==
    [][(aoeOp' = "timer" /\ has(activeAoEs, Head(timers))) =>
          get(activeAoEs, Head(timers)).resolved]_vars

\* the manager of the next state
AMNext == [activeAoEs |-> activeAoEs', timers |-> timers']

\* position k of the list passed to checkPuddleSoak lies within radius of the
\* centre of config
Within(config, radius, pos) ==
    (pos.x - config.x) * (pos.x - config.x) + (pos.z - config.z) * (pos.z - config.z)
        <= radius * radius

\* C14: checkPuddleSoak changes nothing in the manager: the live set with every
\* instance's radius, elapsed time and flags, and the pending callbacks, are as
\* before the call, so every later call acts as it would have without it; the
\* same call made again returns the same result and changes nothing either.
C14_PureQuery ==
    [][aoeOp' = "checkPuddleSoak" =>
          /\ activeAoEs' = activeAoEs
          /\ timers' = timers
          /\ checkPuddleSoak(AMNext, aoeArg'.id, entities').result = (aoeRet' = "true")
          /\ checkPuddleSoak(AMNext, aoeArg'.id, entities').m = AM]_vars

\* checkPuddleSoak has returned true for a puddle that is live and ageing
C14_Witness ==
    /\ aoeOp = "checkPuddleSoak"
    /\ aoeRet = "true"
    /\ has(activeAoEs, aoeArg.id)
    /\ get(activeAoEs, aoeArg.id).elapsedTime > 0
    /\ get(activeAoEs, aoeArg.id).currentRadius = 2

\* C15: checkPuddleSoak(id, positions) returns true exactly when id names a
\* live puddle and some position is within its current radius of its centre;
\* so it returns false for no positions, an unknown id and a non-puddle AoE.
C15_SoakIff ==
    aoeOp = "checkPuddleSoak" =>
        /\ (aoeRet = "true") <=>
              \E i \in DOMAIN activeAoEs :
                  /\ activeAoEs[i].config.id = aoeArg.id
                  /\ activeAoEs[i].config.shape = "puddle"
                  /\ \E k \in DOMAIN entities :
                        Within(activeAoEs[i].config, activeAoEs[i].currentRadius, entities[k])
        /\ aoeRet \in {"true", "false"}
        /\ entities = <<>> => aoeRet = "false"
        /\ ~has(activeAoEs, aoeArg.id) => aoeRet = "false"
        /\ (has(activeAoEs, aoeArg.id) /\ NonPuddle(get(activeAoEs, aoeArg.id)))
              => aoeRet = "false"

\* checkPuddleSoak has returned true for a puddle of radius 1 with the first
\* position outside and the second inside, next to a live circle
C15_Witness ==
    /\ aoeOp = "checkPuddleSoak"
    /\ aoeRet = "true"
    /\ Len(entities) = 2
    /\ has(activeAoEs, aoeArg.id)
    /\ get(activeAoEs, aoeArg.id).currentRadius = 1
    /\ \E i \in DOMAIN activeAoEs : activeAoEs[i].config.shape = "circle"

\* The scenario of the puddle at (10, 0), in units of 1/2: a manager with a
\* puddle of radius 3 there, and the same after respawnPuddle to radius 1.
ScenarioSpawned ==
    spawn([activeAoEs |-> <<>>, timers |-> <<>>],
          [id |-> "x", shape |-> "puddle", x |-> 20, z |-> 0,
           soakRadius |-> 6, soakCount |-> 1, telegraphDuration |-> 1])

ScenarioRespawned == respawnPuddle(ScenarioSpawned, "x", 2, 1)

\* the answer of checkPuddleSoak for one position (x, 0), x in units of 1/2
Soaks(m, x) == checkPuddleSoak(m, "x", <<[x |-> x, z |-> 0]>>).result

\* as stated: radius 3 soaks (11, 0); radius 1 soaks (10.5, 0), not (11, 0)
C16_ExampleAsStated ==
    /\ Soaks(ScenarioSpawned, 22)
    /\ ~Soaks(ScenarioRespawned, 22)
    /\ Soaks(ScenarioRespawned, 21)

\* radius 3 soaks (11, 0) and (11.5, 0); radius 1 soaks (10.5, 0) and (11, 0),
\* which is on its boundary, and not (11.5, 0)
C16_Example ==
    /\ Soaks(ScenarioSpawned, 22)
    /\ Soaks(ScenarioSpawned, 23)
    /\ Soaks(ScenarioRespawned, 21)
    /\ Soaks(ScenarioRespawned, 22)
    /\ ~Soaks(ScenarioRespawned, 23)

C16_Replaced ==
    (aoeOp' = "respawnPuddle" /\ has(activeAoEs, aoeArg'.id)
        /\ get(activeAoEs, aoeArg'.id).config.shape = "puddle") =>
        LET id == aoeArg'.id
            old == get(activeAoEs, id)
            new == get(activeAoEs', id)
        IN /\ Len(activeAoEs') = Len(activeAoEs)
           /\ Cardinality({i \in DOMAIN activeAoEs' : activeAoEs'[i].config.id = id}) = 1
           /\ Without(activeAoEs', id) = Without(activeAoEs, id)
           /\ new.config.shape = "puddle"
           /\ new.config.x = old.config.x /\ new.config.z = old.config.z
           /\ new.currentRadius = aoeArg'.radius
           /\ new.config.telegraphDuration = aoeArg'.tele
           /\ new.elapsedTime = 0
           /\ ~new.resolved
           /\ \A positions \in SoakLists :
                 checkPuddleSoak(AMNext, id, positions).result <=>
                     \E k \in DOMAIN positions :
                         Within(old.config, aoeArg'.radius, positions[k])

\* C16 as stated: the replacement, with (11, 0) outside the puddle of radius 1.
C16_Original == [][C16_Replaced /\ C16_ExampleAsStated]_vars

\* C16: respawnPuddle(id, r, d) on a live puddle leaves exactly one live
\* instance of the id and the live count as it was; the instance has the old
\* centre, current radius r, telegraphDuration d, elapsed time 0 and is
\* unresolved, and checkPuddleSoak answers against r only, boundary included.
C16_StrictReplace == [][C16_Replaced /\ C16_Example]_vars

\* a puddle has been respawned to radius 2, the live count being 2
C16_Witness ==
    /\ aoeOp = "respawnPuddle"
    /\ has(activeAoEs, aoeArg.id)
    /\ get(activeAoEs, aoeArg.id).config.shape = "puddle"
    /\ get(activeAoEs, aoeArg.id).currentRadius = 2
    /\ aoeArg.radius = 2
    /\ get(activeAoEs, aoeArg.id).elapsedTime = 0
    /\ getActiveCount(AM) = 2

\* C17: a puddle is resolved exactly when its elapsed time since its spawn or
\* respawn has reached telegraphDuration, whoever stands in it; it resolves
\* once, with one call of onResolve, its removal is then pending, and its id
\* is never in the hit map of update.
C17_PuddleTimeout ==
    \A i \in DOMAIN activeAoEs :
        LET aoe == activeAoEs[i] IN
        aoe.config.shape = "puddle" =>
            /\ aoe.resolved <=> aoe.elapsedTime >= aoe.config.telegraphDuration
            /\ aoe.resolveCalls = (IF aoe.resolved THEN 1 ELSE 0)
            /\ aoe.resolved => Pending(aoe.config.id)
            /\ (aoeOp = "update" /\ aoe.justResolved) => aoe.resolved
            /\ ~InHitMap(aoe.config.id)

\* a puddle has timed out in an update call with both entities standing in it
C17_Witness ==
    /\ aoeOp = "update"
    /\ \E i \in DOMAIN activeAoEs :
          /\ activeAoEs[i].config.shape = "puddle"
          /\ activeAoEs[i].justResolved
          /\ \A k \in DOMAIN entities : checkCollision(activeAoEs[i].config, entities[k])
          /\ ~InHitMap(activeAoEs[i].config.id)

\* C19 as stated: spawn with an unknown shape throws and changes nothing.
C19_Original ==
    [][(aoeOp' = "spawn" /\ aoeArg'.shape \notin KnownShapes) =>
          aoeRet' = "throw" /\ activeAoEs' = activeAoEs]_vars

C19_Throws ==
    aoeOp' = "spawn" =>
        /\ (aoeRet' = "throw") <=>
              (aoeArg'.shape \notin KnownShapes /\ ~has(activeAoEs, aoeArg'.id))
        /\ aoeRet' = "throw" =>
              /\ activeAoEs' = activeAoEs
              /\ timers' = timers
              /\ ~has(activeAoEs', aoeArg'.id)
              /\ \A t \in Teles :
                    /\ ~spawnThrows(AMNext, CircleConfig(aoeArg'.id, t))
                    /\ has(spawn(AMNext, CircleConfig(aoeArg'.id, t)).activeAoEs,
                           aoeArg'.id)

\* C19: spawn with an unknown shape and an id that is not live throws, and
\* the manager is as before: no instance of the id, the same live set, and a
\* later spawn of the id with a valid shape succeeds.  With a live id spawn
\* returns after the duplicate warning and does not throw.
C19_UnknownShape == [][C19_Throws]_vars

\* spawn has thrown next to a live AoE
C19_Witness ==
    /\ aoeOp = "spawn"
    /\ aoeRet = "throw"
    /\ getActiveCount(AM) = 1

(***************************************************************************)
(* Properties of both managers.                                            *)
(***************************************************************************)
getChakram(chakrams, id) ==
    chakrams[CHOOSE i \in DOMAIN chakrams : chakrams[i].config.id = id]

\* each id occurs at most once in each live set
C13_OnePerId ==
    /\ \A i, j \in DOMAIN activeAoEs :
          activeAoEs[i].config.id = activeAoEs[j].config.id => i = j
    /\ \A i, j \in DOMAIN activeChakrams :
          activeChakrams[i].config.id = activeChakrams[j].config.id => i = j

C13_DuplicateAoE ==
    (aoeOp' = "spawn" /\ has(activeAoEs, aoeArg'.id)) =>
        /\ aoeRet' = "void"
        /\ activeAoEs' = activeAoEs
        /\ timers' = timers

C13_DuplicateChakram ==
    (chOp' \in {"spawn", "spawnStationary"} /\ hasChakram(activeChakrams, chArg')) =>
        activeChakrams' = activeChakrams

\* C13: AoEManager.spawn, ChakramManager.spawn and spawnStationary called with
\* a live id return without throwing and leave every instance, with its
\* configuration, elapsed time, flags and radius, and so the live count, as they
\* were; each id occurs at most once in a manager's live set.
C13_DuplicateSpawn ==
    /\ []C13_OnePerId
    /\ [][C13_DuplicateAoE /\ C13_DuplicateChakram]_vars

\* spawnStationary has been called with the id of a chakram in mid flight,
\* which is still in mid flight
C13_Witness ==
    /\ chOp = "spawnStationary"
    /\ hasChakram(activeChakrams, chArg)
    /\ getChakram(activeChakrams, chArg).x = 1
    /\ ~getChakram(activeChakrams, chArg).stationary
    /\ chakramCount(CM) = 2

C18_UnknownAoE ==
    (aoeOp' \in {"remove", "respawnPuddle"} /\ ~has(activeAoEs, aoeArg'.id)) =>
        /\ aoeRet' = "void"
        /\ activeAoEs' = activeAoEs
        /\ timers' = timers

C18_RespawnNonPuddle ==
    (aoeOp' = "respawnPuddle" /\ has(activeAoEs, aoeArg'.id)
        /\ NonPuddle(get(activeAoEs, aoeArg'.id))) =>
        /\ aoeRet' = "void"
        /\ activeAoEs' = activeAoEs
        /\ timers' = timers

C18_UnknownChakram ==
    (chOp' \in {"remove", "startMovement"} /\ ~hasChakram(activeChakrams, chArg')) =>
        activeChakrams' = activeChakrams

\* C18: AoEManager.remove and respawnPuddle, ChakramManager.remove and
\* startMovement called with an id that is not live return without throwing
\* and leave every live instance and the live count as they were; so does
\* respawnPuddle on a live AoE that is not a puddle.
C18_UnknownId ==
    [][C18_UnknownAoE /\ C18_RespawnNonPuddle /\ C18_UnknownChakram]_vars

\* startMovement has been called with an id that is not live, next to a
\* stationary chakram
C18_Witness ==
    /\ chOp = "startMovement"
    /\ ~hasChakram(activeChakrams, chArg)
    /\ chakramCount(CM) = 1
    /\ activeChakrams[1].stationary

(***************************************************************************)
(* Properties of the ChakramManager.                                       *)
(***************************************************************************)
ChakramInHits(id) ==
    \E e \in DOMAIN chHits : \E k \in DOMAIN chHits[e] : chHits[e][k] = id

C20_AtRest ==
    \A i \in DOMAIN activeChakrams :
        LET c == activeChakrams[i] IN
        c.stationary =>
            /\ c.x = c.config.startX /\ c.z = c.config.startZ
            /\ c.elapsedTime = 0
            /\ ~c.resolved
            /\ ~ChakramInHits(c.config.id)
            /\ \A k \in DOMAIN chResolved : chResolved[k] # c.config.id

\* an update call leaves every stationary chakram in the Map, as it was
C20_UpdateKeeps ==
    chOp' = "update" =>
        \A i \in DOMAIN activeChakrams :
            activeChakrams[i].stationary =>
                \E j \in DOMAIN activeChakrams' : activeChakrams'[j] = activeChakrams[i]

\* C20: a stationary chakram stays at startPosition with elapsed time 0,
\* unresolved, live, and out of the hit map of every update call, for every
\* dt and every entity position, the start position itself included.
C20_StationaryInert == []C20_AtRest /\ [][C20_UpdateKeeps]_vars

\* an update call with an entity on the start position has returned: the
\* stationary chakram there hit nobody, the moving one did
C20_Witness ==
    /\ chOp = "update"
    /\ chakramCount(CM) = 2
    /\ activeChakrams[1].stationary
    /\ ~activeChakrams[2].stationary
    /\ activeChakrams[2].x = 1
    /\ chEntities[1].x = 0 /\ chEntities[1].z = 0
    /\ ChakramInHits(activeChakrams[2].config.id)
    /\ ~ChakramInHits(activeChakrams[1].config.id)

\* the position start + (end - start) * min(t / travelTime, 1) of config
PositionAt(config, t) ==
    [x |-> Lerp(config.startX, config.endX, t, config.travelTime),
     z |-> Lerp(config.startZ, config.endZ, t, config.travelTime)]

\* the chakram is within hitRadius of position pos from entity e
InReach(config, pos, e) ==
    (e.x - pos.x) * (e.x - pos.x) + (e.z - pos.z) * (e.z - pos.z)
        <= config.hitRadius * config.hitRadius

\* the number of times id is listed under entity e in hits
Listed(hits, e, id) ==
    IF e \in DOMAIN hits
    THEN Cardinality({k \in DOMAIN hits[e] : hits[e][k] = id})
    ELSE 0

\* startMovement leaves the chakram moving with elapsed time 0 where it is
C21_Started ==
    (chOp' = "startMovement" /\ hasChakram(activeChakrams, chArg')) =>
        LET old == getChakram(activeChakrams, chArg')
            new == getChakram(activeChakrams', chArg')
        IN /\ ~new.stationary
           /\ new.elapsedTime = 0
           /\ new.x = old.x /\ new.z = old.z
           /\ old.stationary => (new.x = new.config.startX /\ new.z = new.config.startZ)

\* every update adds its dt to the elapsed time of a moving chakram and puts
\* it at the position of that elapsed time
C21_Advanced ==
    chOp' = "update" =>
        \A i \in DOMAIN activeChakrams' :
            LET new == activeChakrams'[i]
                old == getChakram(activeChakrams, new.config.id)
            IN ~new.stationary =>
                  /\ new.elapsedTime = old.elapsedTime + chDelta'
                  /\ new.x = PositionAt(new.config, new.elapsedTime).x
                  /\ new.z = PositionAt(new.config, new.elapsedTime).z

\* The scenario of the chakram from (-20, 0) to (20, 0) with travelTime 2:
\* spawned stationary, idle through update(5), started, then update(1) with
\* an entity at (0, 0).
C21_Scenario ==
    LET cfg == [id |-> "p", startX |-> -20, startZ |-> 0, endX |-> 20, endZ |-> 0,
                travelTime |-> 2, hitRadius |-> 1]
        ents == <<[id |-> "party-1", x |-> 0, z |-> 0]>>
        idle == chakramUpdate(spawnStationary([activeChakrams |-> <<>>], cfg), 5, ents)
        flown == chakramUpdate(startMovement(idle, "p"), 1, ents)
    IN /\ idle.activeChakrams[1].x = -20
       /\ idle.allHits = <<>>
       /\ flown.activeChakrams[1].x = 0
       /\ flown.activeChakrams[1].z = 0
       /\ Listed(flown.allHits, "party-1", "p") = 1

\* C21: after startMovement(id) the chakram's elapsed time is 0 and every
\* update adds its dt, so after updates totalling t it is at
\* start + (end - start) * min(t / travelTime, 1), however many updates passed
\* while it was stationary.
C21_FreshStart == [][C21_Started /\ C21_Advanced /\ C21_Scenario]_vars

\* a chakram that idled has been started and is half way after an update,
\* with the entity at (0, 0) in its hit circle
C21_Witness ==
    /\ chOp = "update"
    /\ \E i \in DOMAIN activeChakrams :
          /\ activeChakrams[i].config.id \in chIdled
          /\ ~activeChakrams[i].stationary
          /\ activeChakrams[i].config.travelTime = 2
          /\ activeChakrams[i].elapsedTime = 1
          /\ activeChakrams[i].x = 1
          /\ \E k \in DOMAIN chEntities :
                /\ chEntities[k].x = 0 /\ chEntities[k].z = 0
                /\ Listed(chHits, chEntities[k].id, activeChakrams[i].config.id) = 1

\* C22: in every update, a moving unresolved chakram is listed under entity e,
\* once, exactly when e is within hitRadius (boundary included) of the
\* position the chakram has after this update's advance, the update on which
\* its travel completes included; what earlier updates listed plays no part.
C22_Occupancy ==
    [][chOp' = "update" =>
          \A i \in DOMAIN activeChakrams :
              LET c == activeChakrams[i]
                  pos == PositionAt(c.config, c.elapsedTime + chDelta')
              IN (~c.stationary /\ ~c.resolved) =>
                    \A k \in DOMAIN chEntities' :
                        Listed(chHits', chEntities'[k].id, c.config.id) =
                            (IF InReach(c.config, pos, chEntities'[k]) THEN 1 ELSE 0)]_vars

\* a chakram has completed its travel in an update and hit the entity at the
\* end position, and only that entity
C22_Witness ==
    /\ chOp = "update"
    /\ chResolved = <<"p">>
    /\ chEntities[1].x = 0 /\ chEntities[1].z = 2
    /\ chEntities[2].x = 2 /\ chEntities[2].z = 0
    /\ Listed(chHits, "party-2", "p") = 1
    /\ Listed(chHits, "party-1", "p") = 0

\* no live chakram has reached its travelTime or is marked resolved, and an
\* id in the hit map is live or completed in this update
C23_LiveInFlight ==
    /\ \A i \in DOMAIN activeChakrams :
          /\ activeChakrams[i].elapsedTime < activeChakrams[i].config.travelTime
          /\ ~activeChakrams[i].resolved
    /\ \A id \in ChakramIds :
          ChakramInHits(id) =>
              \/ hasChakram(activeChakrams, id)
              \/ \E k \in DOMAIN chResolved : chResolved[k] = id
    /\ chOp # "update" => chResolved = <<>>

\* an update resolves, once, exactly the moving chakrams whose elapsed time
\* reaches travelTime, and those are gone when it returns
C23_Completes ==
    chOp' = "update" =>
        /\ \A i \in DOMAIN activeChakrams :
              LET c == activeChakrams[i]
                  done == ~c.stationary /\ c.elapsedTime + chDelta' >= c.config.travelTime
                  calls == Cardinality({k \in DOMAIN chResolved' :
                                           chResolved'[k] = c.config.id})
              IN /\ calls = (IF done THEN 1 ELSE 0)
                 /\ done <=> ~hasChakram(activeChakrams', c.config.id)
        /\ chakramCount([activeChakrams |-> activeChakrams']) =
              chakramCount(CM) - Len(chResolved')

\* C23: on the first update where a moving chakram's elapsed time reaches
\* travelTime it resolves once, with one call of onResolve, and is removed
\* before update returns, whatever the size of dt; from then on its id is in
\* no hit map.
C23_Completion == []C23_LiveInFlight /\ [][C23_Completes]_vars

\* one update with dt 2 has completed both chakrams
C23_Witness ==
    /\ chOp = "update"
    /\ chDelta = 2
    /\ Len(chResolved) = 2
    /\ chakramCount(CM) = 0

\* the change of each manager's live count in a step
C24_Counts ==
    LET n == getActiveCount(AM)
        n1 == getActiveCount(AMNext)
        c == chakramCount(CM)
        c1 == chakramCount([activeChakrams |-> activeChakrams'])
    IN /\ aoeOp' = "spawn" =>
              n1 = n + (IF has(activeAoEs, aoeArg'.id) \/ aoeRet' = "throw" THEN 0 ELSE 1)
       /\ aoeOp' \in {"remove", "timer"} =>
              /\ n1 = n - (IF has(activeAoEs, aoeArg'.id) THEN 1 ELSE 0)
              /\ ~has(activeAoEs', aoeArg'.id)
       /\ aoeOp' \in {"update", "checkPuddleSoak", "respawnPuddle"} => n1 = n
       /\ aoeOp' \in {"clear", "dispose"} =>
              /\ n1 = 0
              /\ \A id \in AoEIds, t \in Teles :
                    getActiveCount(spawn(AMNext, CircleConfig(id, t))) = 1
       /\ chOp' \in {"spawn", "spawnStationary"} =>
              c1 = c + (IF hasChakram(activeChakrams, chArg') THEN 0 ELSE 1)
       /\ chOp' = "remove" =>
              /\ c1 = c - (IF hasChakram(activeChakrams, chArg') THEN 1 ELSE 0)
              /\ ~hasChakram(activeChakrams', chArg')
       /\ chOp' = "startMovement" => c1 = c
       /\ chOp' = "update" => c1 = c - Len(chResolved')
       /\ chOp' \in {"clear", "dispose"} =>
              /\ c1 = 0
              /\ \A cfg \in ChakramConfigs :
                    /\ chakramCount(chakramSpawn([activeChakrams |-> activeChakrams'], cfg)) = 1
                    /\ chakramCount(spawnStationary([activeChakrams |-> activeChakrams'], cfg)) = 1

\* the count is the number of distinct live ids
C24_CountsIds ==
    /\ getActiveCount(AM) = Cardinality({activeAoEs[i].config.id : i \in DOMAIN activeAoEs})
    /\ chakramCount(CM) = Cardinality(ChakramLiveIds(activeChakrams))

\* C24: in both managers getActiveCount() is the number of ids spawned and
\* not yet removed: a successful spawn adds one, remove(id) of a live id and
\* the removal callback take one off at once, a completed chakram leaves in
\* its update, a resolved AoE stays counted until its callback, and after
\* clear() or dispose() the count is 0 and every id can be spawned again.
C24_LiveCount == []C24_CountsIds /\ [][C24_Counts]_vars

\* clear has emptied a manager that held a resolved AoE awaiting its callback
C24_Witness ==
    /\ aoeOp = "clear"
    /\ getActiveCount(AM) = 0
    /\ timers # <<>>

(***************************************************************************)
(* Properties of the BuffManager.                                          *)
(***************************************************************************)
BMNext == [activeEffects |-> activeEffects']

\* apply(entityId, config) changes nothing that get and getAll answer for
\* another effect of the entity or for another entity
OthersUnchanged(entityId, effectId) ==
    /\ \A e \in BuffEntities, id \in EffectIds :
          (e # entityId \/ id # effectId) =>
              buffGet(BMNext, e, id) = buffGet(BM, e, id)
    /\ \A e \in BuffEntities \ {entityId} :
          buffGetAll(activeEffects', e) = buffGetAll(activeEffects, e)

\* C29: applying an effect the entity already has sets its remaining time
\* back to the duration of the config applied, without adding to it, and
\* leaves the other effects of that entity and the effects of other entities
\* as they were.
C29_Original ==
    [][(buffOp' = "apply" /\ buffHas(BM, buffArg'.entityId, buffArg'.effectId)) =>
          /\ buffGet(BMNext, buffArg'.entityId, buffArg'.effectId).remainingTime =
                buffGet(BMNext, buffArg'.entityId, buffArg'.effectId).config.duration
          /\ OthersUnchanged(buffArg'.entityId, buffArg'.effectId)]_vars

\* the entries of effects that update(deltaTime) expires, and those it keeps
RECURSIVE Expiring(_, _)
Expiring(effects, deltaTime) ==
    IF effects = <<>> THEN <<>>
    ELSE (IF Head(effects).remainingTime - deltaTime <= 0 THEN <<Head(effects)>> ELSE <<>>)
         \o Expiring(Tail(effects), deltaTime)

RECURSIVE Staying(_, _)
Staying(effects, deltaTime) ==
    IF effects = <<>> THEN <<>>
    ELSE (IF Head(effects).remainingTime - deltaTime > 0 THEN <<Head(effects)>> ELSE <<>>)
         \o Staying(Tail(effects), deltaTime)

\* every entry is stored under the key of its entity and effect id, with a
\* remaining time between 0 and its duration
C30_Entries ==
    \A i \in DOMAIN activeEffects :
        /\ activeEffects[i].key =
              getKey(activeEffects[i].entityId, activeEffects[i].config.id)
        /\ activeEffects[i].remainingTime > 0
        /\ activeEffects[i].remainingTime <= activeEffects[i].config.duration
        /\ \A j \in DOMAIN activeEffects :
              activeEffects[i].key = activeEffects[j].key => i = j

\* update(dt) takes dt off every entry; the entries then at or below 0 are
\* gone, has() is false for them and the list holds their ids, one each in
\* Map order; the others stay in place with the new remaining time
C30_Update ==
    buffOp' = "update" =>
        LET dt == buffArg'.deltaTime
            gone == Expiring(activeEffects, dt)
            kept == Staying(activeEffects, dt)
        IN /\ buffExpired' = [k \in DOMAIN gone |-> gone[k].config.id]
           /\ \A k \in DOMAIN gone :
                 ~buffHas(BMNext, gone[k].entityId, gone[k].config.id)
           /\ activeEffects' =
                 [k \in DOMAIN kept |-> [kept[k] EXCEPT !.remainingTime = @ - dt]]
           /\ \A k \in DOMAIN kept :
                 /\ buffHas(BMNext, kept[k].entityId, kept[k].config.id)
                 /\ buffGet(BMNext, kept[k].entityId, kept[k].config.id).remainingTime =
                       kept[k].remainingTime - dt

\* C30: update(dt) takes dt off every active effect of every entity; an
\* effect whose remaining time is then <= 0, exactly 0 included, is removed
\* in that call, puts its effect id in the returned list and has() is false
\* for it afterwards; an effect with remaining time > 0 stays and puts
\* nothing in the list, also when several effects expire in the same call.
C30_Expiry == []C30_Entries /\ [][C30_Update]_vars

\* update(1) has expired two effects at exactly 0 and kept a third
C30_Witness ==
    /\ buffOp = "update"
    /\ buffArg.deltaTime = 1
    /\ Len(buffExpired) = 2
    /\ Len(activeEffects) = 1

(***************************************************************************)
(* Properties of checkCollision.  A query point <<i, j>> is the position   *)
(* (i / 2, j / 2), and a size k given to GeoCircle, GeoLine or GeoPlus is  *)
(* the number k / 2, so the comparisons below are those of the claims in   *)
(* exact arithmetic, scaled to whole numbers.                              *)
(***************************************************************************)
Checked == geoInside # "none"

\* C25: a circle AoE reports a point inside when its squared distance from
\* the center is at most radius^2, a point at exactly the radius included, and
\* outside when the squared distance is above radius^2, with no tolerance.
C25_CircleBoundary ==
    \A c \in CircleCenters, r \in CircleRadii :
        (geoConfig = GeoCircle(c, r) /\ Checked) =>
            LET dx == geoPoint[1] - c[1]
                dz == geoPoint[2] - c[2]
            IN /\ dx * dx + dz * dz = r * r => geoInside = "inside"
               /\ dx * dx + dz * dz > r * r => geoInside = "outside"
               /\ dx * dx + dz * dz < r * r => geoInside = "inside"

\* the point (2, 1.5) is at distance exactly 2.5 from the center (0.5, -0.5)
\* of a circle of radius 2.5, and was reported inside
C25_Witness ==
    /\ geoConfig = GeoCircle(<<1, -1>>, 5)
    /\ geoPoint = <<4, 3>>
    /\ geoInside = "inside"

\* the plus queries, each with its armLength and armWidth in halves
PlusQueries ==
    {[config |-> GeoPlus(l, w), l |-> l, w |-> w] : l \in PlusLengths, w \in PlusWidths} \cup
    {[config |-> GeoPlusDefault(l), l |-> l, w |-> 4] : l \in PlusLengths}

\* C26 as stated: a point (x, z) relative to the center of a plus with
\* rotation 0 is inside iff (|x| <= armWidth/2 and |z| <= armLength/2) or
\* (|z| <= armWidth/2 and |x| <= armLength/2).
C26_Original ==
    \A q \in PlusQueries :
        (geoConfig = q.config /\ Checked) =>
            (geoInside = "inside" <=>
                \/ 2 * Abs(geoPoint[1]) <= q.w /\ 2 * Abs(geoPoint[2]) <= q.l
                \/ 2 * Abs(geoPoint[2]) <= q.w /\ 2 * Abs(geoPoint[1]) <= q.l)

\* C26: a plus AoE is the union of two centered rectangles, each armWidth
\* wide and reaching armLength from the center in both directions: a point
\* (x, z) relative to the center of a plus with rotation 0 is inside iff
\* (|x| <= armWidth/2 and |z| <= armLength) or
\* (|z| <= armWidth/2 and |x| <= armLength).
C26_PlusArms ==
    \A q \in PlusQueries :
        (geoConfig = q.config /\ Checked) =>
            (geoInside = "inside" <=>
                \/ 2 * Abs(geoPoint[1]) <= q.w /\ Abs(geoPoint[2]) <= q.l
                \/ 2 * Abs(geoPoint[2]) <= q.w /\ Abs(geoPoint[1]) <= q.l)

\* the point (0, 1) was reported inside a plus with armLength 1 and
\* armWidth 1: it is at the end of an arm, beyond armLength / 2
C26_Witness ==
    /\ geoConfig = GeoPlus(2, 2)
    /\ geoPoint = <<0, 2>>
    /\ geoInside = "inside"

\* C27: a cone with rotation 2 * PI reports every query point as the cone of
\* the same center, radius and angle with rotation 0 does.
C27_Original ==
    (geoConfig.shape = "cone" /\ geoConfig.rotation = TwoPI /\ Checked) =>
        geoInside = geoBefore

\* C28: a line AoE turned about its center reports a query point turned
\* about that center by the same angle as it did before the turn.
C28_Original ==
    (geoConfig.shape = "line" /\ geoBefore # "none" /\ Checked) =>
        geoInside = geoBefore

(***************************************************************************)
(* Properties of the ability system.                                       *)
(***************************************************************************)
ASNext == [abilities |-> abilities', entityId |-> "player", buffManager |-> BMNext]

\* a step made by the call op on the ability system that is not a repetition
\* of the same call with the same outcome
AbilityCall(op) == abOp' = op /\ abVars' # abVars

\* the stored cooldown of a registered ability
Remaining(states, id) == getAbility(states, id).remainingCooldown

\* C31: use(id) on a registered ability whose cooldown has run out returns
\* true, sets its remaining cooldown to the configured cooldown and applies
\* its buff, if it has one, at full duration to the entity of the system;
\* use(id) on an ability that is on cooldown or on an id that is not
\* registered returns false and changes no cooldown and no buff, so an
\* active buff is not refreshed.
C31_UseGated ==
    [][AbilityCall("use") =>
          LET id == abArg'.id IN
          IF hasAbility(abilities, id) /\ Remaining(abilities, id) <= 0
          THEN LET config == getAbility(abilities, id).config IN
               /\ abRet' = "true"
               /\ hasAbility(abilities', id)
               /\ Remaining(abilities', id) = config.cooldown
               /\ "buff" \in DOMAIN config =>
                     buffGet(BMNext, "player", config.buff.id) =
                        [config |-> config.buff, remainingTime |-> config.buff.duration]
               /\ "buff" \notin DOMAIN config => activeEffects' = activeEffects
          ELSE /\ abRet' = "false"
               /\ abilities' = abilities
               /\ activeEffects' = activeEffects]_vars

\* use('arms-length') was refused on cooldown while the buff of the earlier
\* use was still active with 2 of its 6 seconds left
C31_Witness ==
    /\ abOp = "use"
    /\ abArg.id = "arms-length"
    /\ abRet = "false"
    /\ hasAbility(abilities, "arms-length")
    /\ Remaining(abilities, "arms-length") = ARMS_LENGTH.cooldown
    /\ buffHas(BM, "player", "arms-length")
    /\ buffGet(BM, "player", "arms-length").remainingTime = 2 * TicksPerSecond

\* the reported cooldown of every registered ability is between 0 and the
\* configured cooldown, and isReady tells whether it is 0
C32_Reported ==
    \A i \in DOMAIN abilities :
        LET id == abilities[i].config.id IN
        /\ getCooldown(AS, id) >= 0
        /\ getCooldown(AS, id) <= abilities[i].config.cooldown
        /\ isReady(AS, id) <=> getCooldown(AS, id) = 0

\* update(dt) takes dt off every cooldown that is running and leaves the
\* others; an ability whose cooldown dt covers can be used again
C32_Update ==
    AbilityCall("update") =>
        LET dt == abArg'.deltaTime IN
        /\ DOMAIN abilities' = DOMAIN abilities
        /\ \A i \in DOMAIN abilities :
              LET id == abilities[i].config.id IN
              /\ abilities'[i].config = abilities[i].config
              /\ abilities'[i].remainingCooldown =
                    IF abilities[i].remainingCooldown > 0
                    THEN abilities[i].remainingCooldown - dt
                    ELSE abilities[i].remainingCooldown
              /\ abilities[i].remainingCooldown <= dt =>
                    /\ getCooldown(ASNext, id) = 0
                    /\ use(ASNext, id).ret

\* reset() makes every registered ability usable again
C32_Reset ==
    AbilityCall("reset") =>
        \A i \in DOMAIN abilities' :
            /\ getCooldown(ASNext, abilities'[i].config.id) = 0
            /\ use(ASNext, abilities'[i].config.id).ret

\* only a use that succeeds starts a cooldown
C32_Started ==
    \A i \in DOMAIN abilities' :
        (/\ i \in DOMAIN abilities
         /\ abilities[i].config.id = abilities'[i].config.id
         /\ abilities'[i].remainingCooldown > 0
         /\ abilities'[i].remainingCooldown > abilities[i].remainingCooldown) =>
            abOp' = "use" /\ abRet' = "true" /\ abArg'.id = abilities[i].config.id

\* C32: over every sequence of use, update and reset calls, getCooldown of a
\* registered ability lies between 0 and the configured cooldown, negative
\* values being reported as 0 when the dt of update overshoots; isReady is
\* true exactly when the reported cooldown is 0; updates that together
\* cover the cooldown, and reset(), make use succeed again.
C32_CooldownBounds ==
    []C32_Reported /\ [][C32_Update /\ C32_Reset /\ C32_Started]_vars

\* update(70 s) has overshot the cooldown of sprint, which was used after
\* two earlier updates: the stored value is below 0 and sprint is ready
C32_Witness ==
    /\ abOp = "update"
    /\ abArg.deltaTime = 70 * TicksPerSecond
    /\ hasAbility(abilities, "sprint")
    /\ Remaining(abilities, "sprint") < 0
    /\ getCooldown(AS, "sprint") = 0
    /\ isReady(AS, "sprint")
    /\ hasAbility(abilities, "arms-length")
    /\ Remaining(abilities, "arms-length") = 0

(***************************************************************************)
(* Properties of clearEvents().                                            *)
(***************************************************************************)
\* C38 as stated: after clearEvents() no handler of an event registered
\* before the call is invoked again, also when clearEvents() is called from
\* inside a handler during an update call in which other events are due:
\* no invocation of an update call comes after a clearEvents() made in that
\* call, and an event added after the call, reusing an earlier id or not,
\* is not held back by the fired set.
C38_Original ==
    /\ \A k \in DOMAIN lastFired : ~lastFired[k].afterClear
    /\ events = <<>> => executedEvents = {}

(***************************************************************************)
(* Properties of startMovement on a chakram in flight.                     *)
(***************************************************************************)
\* startMovement(id) on a live chakram that is moving sets its elapsed time
\* back to 0 and changes nothing else: it stays live and moving, and the
\* mesh stays where the last update put it
C39_Restart ==
    (chOp' = "startMovement" /\ hasChakram(activeChakrams, chArg')
        /\ ~getChakram(activeChakrams, chArg').stationary) =>
        /\ hasChakram(activeChakrams', chArg')
        /\ getChakram(activeChakrams', chArg') =
              [getChakram(activeChakrams, chArg') EXCEPT !.elapsedTime = 0]
        /\ \A i \in DOMAIN activeChakrams :
              activeChakrams[i].config.id # chArg' => activeChakrams'[i] = activeChakrams[i]

\* elapsedTime is the dt of the updates since the last startMovement: the
\* update that takes it to travelTime resolves and removes the chakram, an
\* update that leaves it below keeps the chakram live, unresolved, at the
\* point of the path that this time gives
C39_Flight ==
    chOp' = "update" =>
        \A i \in DOMAIN activeChakrams :
            LET c == activeChakrams[i]
                id == c.config.id
                elapsed == c.elapsedTime + chDelta'
            IN ~c.stationary =>
                  IF elapsed >= c.config.travelTime
                  THEN /\ ~hasChakram(activeChakrams', id)
                       /\ \E k \in DOMAIN chResolved' : chResolved'[k] = id
                  ELSE /\ hasChakram(activeChakrams', id)
                       /\ getChakram(activeChakrams', id).elapsedTime = elapsed
                       /\ ~getChakram(activeChakrams', id).resolved
                       /\ [x |-> getChakram(activeChakrams', id).x,
                           z |-> getChakram(activeChakrams', id).z] =
                             PositionAt(c.config, elapsed)
                       /\ \A k \in DOMAIN chResolved' : chResolved'[k] # id

\* C39: startMovement on a chakram that is moving already restarts its
\* flight: the elapsed time returns to 0 and the next update(dt) places it
\* where dt after the start puts it, so it resolves in the update that brings
\* the time since the last startMovement to travelTime, and it does not
\* resolve as long as startMovement is called again before that.
C39_RestartedFlight == [][C39_Restart /\ C39_Flight]_vars

\* startMovement was called on a chakram half way along its path: it is live
\* and moving with elapsed time 0, the mesh still at the middle
C39_Witness ==
    /\ chOp = "startMovement"
    /\ hasChakram(activeChakrams, chArg)
    /\ ~getChakram(activeChakrams, chArg).stationary
    /\ getChakram(activeChakrams, chArg).elapsedTime = 0
    /\ getChakram(activeChakrams, chArg).x = 1
    /\ getChakram(activeChakrams, chArg).config.travelTime = 2

(***************************************************************************)
(* Properties of Game.                                                     *)
(***************************************************************************)
\* a step taken by a handler of Game
GameStep == aoeOp' = "game"

\* The calls logged by the handler that ran account for the move of gameState:
\* each found the state that the call before it left.
Chained ==
    /\ \A k \in DOMAIN gameLog' :
          gameLog'[k].state = IF k = 1 THEN gameState ELSE gameLog'[k - 1].to
    /\ gameState' = IF gameLog' = <<>> THEN gameState ELSE gameLog'[Len(gameLog')].to

StatedMove(from, to) ==
    \/ from = "waiting" /\ to = "playing"
    \/ from = "playing" /\ to \in {"failed", "clear"}
    \/ from \in {"failed", "clear"} /\ to = "waiting"

\* C33 as stated: gameState moves only from waiting to playing, from playing to
\* failed or clear, and from failed or clear to waiting.
C33_Original ==
    \A k \in DOMAIN gameLog :
        gameLog[k].state # gameLog[k].to => StatedMove(gameLog[k].state, gameLog[k].to)

C33_Calls ==
    GameStep =>
        /\ Chained
        /\ \A k \in DOMAIN gameLog' :
              LET c == gameLog'[k] IN
              /\ c.call = "startMechanic" => c.state = "waiting" /\ c.to = "playing"
              /\ c.call = "restart" => c.to = "waiting"
              /\ c.call = "triggerFailure" =>
                    c.to = IF c.state = "playing" THEN "failed" ELSE c.state
              /\ c.call = "triggerSuccess" =>
                    c.to = IF c.state = "playing" THEN "clear" ELSE c.state

\* an outcome stands until restart() is called
C33_Stands ==
    (gameState \in {"failed", "clear"} /\ gameState' # gameState) =>
        /\ gameState' = "waiting"
        /\ \E k \in DOMAIN gameLog' : gameLog'[k].call = "restart"

\* the timeline runs in state playing and in no other
C33_Stopped == isRunning <=> gameState = "playing"

\* C33 amended: gameState moves from waiting to playing by startMechanic, from
\* playing to failed by triggerFailure and to clear by triggerSuccess, and from
\* any state, playing included, to waiting by restart; a trigger called in a
\* state other than playing leaves the state, so the first trigger of an
\* attempt decides it and the outcome stands until restart; the timeline is
\* running exactly in state playing.
C33_DecidedOnce == []C33_Stopped /\ [][C33_Calls /\ C33_Stands]_vars

\* a chakram hit after the attempt was cleared: triggerFailure is called in
\* state clear, and the state stays clear
C33_Witness ==
    /\ gameState = "clear"
    /\ \E k \in DOMAIN gameLog :
          gameLog[k].call = "triggerFailure" /\ gameLog[k].state = "clear"

\* the step is a call of Game.update
UpdateStep == GameStep /\ gameOp'.op = "update"

\* a call of the handler that ran set the outcome
Decided(log, call) == \E k \in DOMAIN log : log[k].call = call /\ log[k].state = "playing"

\* the state becomes clear only by the success check of an update
C34_Clear ==
    (gameState' = "clear" /\ gameState # "clear") =>
        /\ UpdateStep
        /\ Decided(gameLog', "triggerSuccess")
        /\ isComplete(TL')
        /\ getActiveCount(AM') = 0
        /\ successCheckTime' # null
        /\ successCheckTime'[1] >= successDelayAfterLastAoE
        /\ zeroRun' >= successDelayAfterLastAoE

\* an update of a complete timeline that ends with an AoE live ends the wait
C34_Restarts ==
    (UpdateStep /\ gameState' = "playing" /\ isComplete(TL') /\ getActiveCount(AM') # 0) =>
        successCheckTime' = null

\* an update that fails the attempt does not go on to clear it
C34_FailureFirst ==
    (UpdateStep /\ Decided(gameLog', "triggerFailure")) =>
        /\ gameState' = "failed"
        /\ \A k \in DOMAIN gameLog' : gameLog'[k].call # "triggerSuccess"

\* the wait is time over which updates ended with no AoE live, one after another
C34_Waited == successCheckTime # null => successCheckTime[1] <= zeroRun

\* C34: the state becomes clear only in an update that finds it playing, with
\* the timeline complete and the live count of the AoE manager 0 at the end of
\* consecutive updates whose dt sum to 0.5 s or more; an update of a complete
\* timeline with a live AoE puts the wait back to null; an update in which
\* triggerFailure set the outcome ends failed, without a call of triggerSuccess.
C34_SuccessWhenResolved ==
    []C34_Waited /\ [][C34_Clear /\ C34_Restarts /\ C34_FailureFirst]_vars

\* an update has cleared the attempt
C34_Witness ==
    /\ gameState = "clear"
    /\ gameOp.op = "update"
    /\ Decided(gameLog, "triggerSuccess")
    /\ successCheckTime[1] >= successDelayAfterLastAoE

\* the places of the timeline's array that hold an event with this id
Registrations(id) == {i \in DOMAIN events : events[i].id = id}

\* C36: whatever restarts there were, the timeline holds one registration of
\* each event of the script and nothing else, so the registered ids are
\* distinct; no event has fired more than once in the attempt under way, and
\* the ids marked as fired are ids of its events.
C36_NoAccumulation ==
    /\ Len(events) = Len(script)
    /\ \A k \in DOMAIN script : Cardinality(Registrations(script[k].id)) = 1
    /\ \A i \in DOMAIN events : events[i].fired <= 1
    /\ executedEvents = {events[i].id : i \in {j \in DOMAIN events : events[j].fired = 1}}

\* every event of the script has fired in an attempt that followed a restart
C36_Witness ==
    /\ cycle = 2
    /\ gameState = "playing"
    /\ \A i \in DOMAIN events : events[i].fired = 1

Aged == [activeEffects |-> buffUpdate(BM, gameOp'.arg.deltaTime).activeEffects]

\* the entity id under which the buffs of a party member are kept
BuffEntityId(entityId) ==
    IF PartyNumberOf(entityId) = playerNumber THEN "player" ELSE entityId

\* the update step ran with a cc- AoE among the hits of entityId
CruiseChaserHits(entityId) ==
    /\ UpdateStep
    /\ entityId \in DOMAIN allHits'
    /\ \E k \in DOMAIN allHits'[entityId] : IsCruiseChaser(allHits'[entityId][k])

\* the update step ran with one cc- AoE, and nothing else, hitting entityId only
OnlyCruiseChaserHit(entityId) ==
    /\ CruiseChaserHits(entityId)
    /\ DOMAIN allHits' = {entityId}
    /\ Len(allHits'[entityId]) = 1

\* entityId survives a cc- hit: it has no physical-vuln and, if it is the
\* player, arms-length is active
Survives(entityId) ==
    /\ ~buffHas(Aged, BuffEntityId(entityId), "physical-vuln")
    /\ BuffEntityId(entityId) = "player" => buffHas(Aged, "player", "arms-length")

\* the effect is held with its full duration
Fresh(m, entityId, config) ==
    /\ buffHas(m, entityId, config.id)
    /\ buffGet(m, entityId, config.id).remainingTime = config.duration

C35_SecondHit ==
    \A e \in {"party-1", "party-2"} :
        (/\ gameState = "playing"
         /\ CruiseChaserHits(e)
         /\ buffHas(Aged, BuffEntityId(e), "physical-vuln"))
        => gameState' = "failed"

\* a cc- hit that the entity survives gives it both debuffs, and a sole hit of
\* that kind leaves the state of the game
C35_FirstHit ==
    \A e \in {"party-1", "party-2"} :
        /\ (CruiseChaserHits(e) /\ ~SharedCruiseChaser(allHits') /\ Survives(e)) =>
              /\ Fresh(BM', BuffEntityId(e), MAGIC_VULN)
              /\ buffHas(BM', BuffEntityId(e), "physical-vuln")
        /\ (OnlyCruiseChaserHit(e) /\ Survives(e)) =>
              /\ Fresh(BM', BuffEntityId(e), PHYSICAL_VULN)
              /\ gameState' = gameState

\* the player without arms-length does not survive a cc- hit
C35_Knockback ==
    \A e \in {"party-1", "party-2"} :
        (/\ gameState = "playing"
         /\ CruiseChaserHits(e)
         /\ BuffEntityId(e) = "player"
         /\ ~buffHas(Aged, "player", "arms-length"))
        => gameState' = "failed"

\* a cc- AoE that hits several entities fails the attempt, and none of them
\* receives a debuff
C35_Shared ==
    (UpdateStep /\ SharedCruiseChaser(allHits')) =>
        /\ gameState = "playing" => gameState' = "failed"
        /\ BM' = Aged

\* physical-vuln lasts 17 s at most
C35_Lasts ==
    \A i \in DOMAIN activeEffects :
        activeEffects[i].config.id = "physical-vuln" =>
            /\ activeEffects[i].remainingTime > 0
            /\ activeEffects[i].remainingTime <= 17 * TicksPerSecond

====
